---- MODULE Spec2Model ----
(***************************************************************************)
(* Ledger journal parser and transaction balancer.                         *)
(*                                                                         *)
(* Decimals are exact integers counted in units of 1/Scale: written        *)
(* amounts are whole numbers (multiples of Scale), conversion factors and  *)
(* converted amounts have DivisionPrecision fractional digits.  A          *)
(* common-unit contribution (amount * factor) is counted in units of       *)
(* 1/Scale^2, so that every product and sum of the balancer is exact and   *)
(* only decimal.Div rounds, as in the decimal library.                     *)
(***************************************************************************)
EXTENDS Integers, Sequences, FiniteSets, TLC

\* ---------------------------------------------------------------- bounds
\* Longest block body (posting lines and comment-only lines) that is scanned.
MaxLines == 3
\* Fractional digits kept by decimal.Div (the library keeps 16).
DivisionPrecision == 1

\* Longest file (in physical lines) given to an entry point.
MaxFileLines == 8
\* Longest file (in physical lines) given to an entry point of the
\* callback-based driver.
MaxCallbackFileLines == 5
\* Longest file (in physical lines) given to ParseLedgerAsync.
MaxAsyncFileLines == 4
\* Longest file (in physical lines) with conversions given to
\* ParseLedgerAsync.
MaxConversionFileLines == 5
\* Longest QIF text (in lines) given to the QIF decoder.
MaxQifLines == 5
\* Longest IIF text (in rows) given to the IIF decoder.
MaxIifRows == 5
\* Longest file (in physical lines) reached through an include directive.
MaxIncludedLines == 1
\* Deepest nesting of include directives that is followed.
MaxDepth == 1
\* Most files one include pattern matches.
MaxMatches == 2
\* Most include directives with matches that one parse follows.
MaxIncludes == 1
\* Transaction slots parser.init allocates (preAllocSize, 100000 in the code;
\* three posting slots go with each), and the reserve below which parser.grow
\* allocates afresh (preAllocWarn, 10 in the code).
PreAllocSize == 1
PreAllocWarn == 1
\* Capacity of a result channel (100 in the code), small enough to fill.
ResultsCap == 1

Scale == 10 ^ DivisionPrecision

\* A nil pointer and a pointer to a value (*decimal.Decimal).
Nil == <<>>
Ptr(v) == <<v>>

Min(a, b) == IF a < b THEN a ELSE b
Abs(n) == IF n < 0 THEN -n ELSE n

\* ------------------------------------------------------------ error values
NoErr == "nil"
ErrNeedAtLeastTwoPostings == "need at least two postings"
ErrNoEmptyAccountForExtraBalance ==
    "unable to balance transaction: no empty account to place extra balance"
ErrMoreThanOneEmptyAccountInTx ==
    "unable to balance transaction: more than one account empty"
ErrEvaluate == "compute.Evaluate failed"

\* ------------------------------------------------------------ input lines
\* The text of one line of a block, already split in the tokens the posting
\* grammar looks for: an optional currency, an optional amount (a whole
\* number), and an optional "@ factor" or "@@ converted" suffix.
Currencies == {"", "USD", "EUR", "GBP"}
Amounts == {-1, 0, 1, 2}
\* After `@@` the written amount is not summed: it only matters whether it is
\* zero, so two amounts stand for all.
ConvertedAmounts == {0, 1}

CommentLine == [kind |-> "comment", currency |-> "", amount |-> Nil,
                at |-> "", atval |-> 0]
NameOnlyLine == [kind |-> "posting", currency |-> "", amount |-> Nil,
                 at |-> "", atval |-> 0]
AmountLines ==
    [kind : {"posting"}, currency : Currencies, amount : {Ptr(a) : a \in Amounts},
     at : {""}, atval : {0}]
    \cup [kind : {"posting"}, currency : Currencies,
          amount : {Ptr(a) : a \in Amounts}, at : {"@"}, atval : {2}]
    \cup [kind : {"posting"}, currency : Currencies,
          amount : {Ptr(a) : a \in ConvertedAmounts}, at : {"@@"}, atval : {1}]
\* A posting line whose amount is a parenthesised expression that
\* compute.Evaluate rejects, such as "Expenses  (2 *)".
FailingAmountLines ==
    [kind : {"failing"}, currency : Currencies, amount : {Nil}, at : {""},
     atval : {0}]
BodyLines == {CommentLine, NameOnlyLine} \cup AmountLines \cup FailingAmountLines

\* Currency names are opaque to the parser, so a block names its currencies
\* in a fixed order: the first one it mentions is USD, the second EUR, ...
CurrencyOrder == <<"USD", "EUR", "GBP">>
usedCurrencies(ls) == {ls[i].currency : i \in DOMAIN ls} \ {""}
allowedCurrencies(ls) ==
    LET n == Cardinality(usedCurrencies(ls))
    IN {""} \cup usedCurrencies(ls)
       \cup (IF n < Len(CurrencyOrder) THEN {CurrencyOrder[n + 1]} ELSE {})

\* ---------------------------------------------------------------- state
VARIABLES
    lines,      \* block.lines: the raw lines of the block read so far
    pc,         \* "scan" while the block is read, "done" once it was parsed
    via,        \* which parseTransaction ran: "block" or "inline"
    parsed,     \* AccountChanges as the posting parser produced them
    curOrder,   \* the order in which `range currencyMap` yielded the keys
    tx,         \* t.AccountChanges when IsBalanced returned
    err,        \* the error parseTransaction returned
    trans,      \* the *Transaction parseTransaction returned (Nil or a pointer)
    tx2,        \* t.AccountChanges after IsBalanced on an equal transaction
    err2,       \* the error of that second call
    curOrder2,  \* the map range order of that second call
    \* --- the channel-based driver (ParseLedger, ParseLedgerFile, parseLedger)
    entry,          \* the entry point called; "" while only a block is parsed
    input,          \* what the ledger text handed to the entry point holds
                    \* besides headers and plain postings: "plain" (nothing),
                    \* "comments" or "conversions"
    cpc,            \* the caller: "idle", "start", "recv", "returned"
    generalLedger,  \* the caller's accumulated transactions
    namedErr,       \* the caller's named result `err`
    retList,        \* the list the entry point returned
    retErr,         \* the error the entry point returned
    cancelled,      \* ctx.Done() is closed
    producedError,  \* some parseLedger put an error result on its channel
    ppc,            \* per parseLedger invocation: where the goroutine stands
    source,         \* per invocation: its filename argument
    lnum,           \* per invocation: lp.line
    consumed,       \* per invocation: physical lines its scanner has read
    ctIdx,          \* per invocation: lp.ctIdx
    cpIdx,          \* per invocation: lp.cpIdx
    eof,            \* per invocation: the scanner has hit the end of input
    slots,          \* per invocation: what lp.postings holds from cpIdx on
    pending,        \* per invocation: the result it is about to send
    after,          \* per invocation: where it goes on once the send is done
    paths,          \* per invocation: include paths that are still to parse
    results,        \* per invocation: the buffer of its result channel
    closed,         \* per invocation: its result channel is closed
    rejected,       \* per invocation: the header last read was rejected and
                    \* no blank line or line of another kind was read since
    overrun,        \* per invocation: skipAccount read on past a line that
                    \* holds nothing but white space
    alone,          \* per invocation: the result the block just parsed gives
                    \* when lp.postings holds nothing of an earlier block
    comments,       \* per invocation: lp.comments, each comment named by the
                    \* physical line it stands on
    txComments,     \* per invocation: Comments of the transaction it built
                    \* and has not sent yet
    sinceBlock,     \* per invocation: the comment-only lines read since the
                    \* preceding block ended
    ownComments,    \* per invocation: the comment-only lines between the end
                    \* of the preceding block and the end of the block of
                    \* that transaction
    \* --- the callback-based driver (parseLedger with a callback, parser.include)
    cbpc,           \* per file: where its parseLedger call stands
    cbline,         \* per file: lp.scanner.LineNumber()
    cbeof,          \* per file: the scanner has hit the end of input
    blocks,         \* per file: the blocks collected by the scan loop
    tlist,          \* per file: the transactions parsed from its blocks
    cbret,          \* per file: the stop value its parseLedger call returned
    appendTmp,      \* per file: the slice its callback read before appending
    cbarg,          \* per file: the error its parseLedger is about to hand over
    cbIncludes,     \* include directives with matches met so far
    unreadable,     \* per file: os.Open failed for it
    \* --- ParseLedgerAsync and the consumer of its two channels
    delivered,      \* the transactions received from the channel c
    reported,       \* the errors received from the channel e
    cClosed,        \* close(c) has run
    eClosed,        \* close(e) has run
    produced,       \* history: every result a parseLedger built from its own file
    \* --- the QIF decoder (ledger/qif)
    qifInput,       \* the lines of the text the decoder reads
    qifNewline,     \* the last line of that text ends with a newline
    qifPos,         \* lines the bufio.Reader has handed out
    qifpc,          \* "idle", "Decode", "decodeTransaction", "returned"
    currentType,    \* Decode: the value of the last !Type: line
    transactions,   \* Decode: the transactions appended so far
    qifTx,          \* decodeTransaction: tx, Nil outside of it
    qifRet,         \* the list Decode returned
    qifErr,         \* the error Decode returned
    \* --- the IIF decoder (ledger/iif)
    iifInput,       \* the rows the csv.Reader yields
    iifPos,         \* Decoder: the row Next read last (past the end: io.EOF)
    iifpc,          \* "idle", "File.Load", "headers", "records", "range", "rows", "returned"
    bHeaders,       \* Block.Load: b.Headers
    bRecords,       \* Block.Load: b.Records
    group,          \* Block.Load: r, the record group under construction
    hIdx,           \* Block.Load: the index of h in `range b.Headers`
    fileBlocks,     \* File.Load: f.Blocks
    iifErr          \* the error Decode returned

balVars == <<lines, pc, via, parsed, curOrder, tx, err, trans, tx2, err2, curOrder2>>
callerVars == <<entry, cpc, generalLedger, namedErr, retList, retErr, cancelled>>
commentVars == <<comments, txComments, sinceBlock, ownComments>>
prodVars == <<producedError, ppc, source, lnum, consumed, ctIdx, cpIdx, eof, slots, pending, after,
              paths, results, closed, rejected, overrun, alone,
              comments, txComments, sinceBlock, ownComments>>
cbVars == <<cbpc, cbline, cbeof, blocks, tlist, cbret, appendTmp, cbarg, cbIncludes, unreadable>>
deliveryVars == <<delivered, reported, cClosed, eClosed>>
asyncVars == <<delivered, reported, cClosed, eClosed, produced>>
qifVars == <<qifInput, qifNewline, qifPos, qifpc, currentType, transactions, qifTx, qifRet, qifErr>>
iifVars == <<iifInput, iifPos, iifpc, bHeaders, bRecords, group, hIdx, fileBlocks, iifErr>>
decoderVars == <<qifInput, qifNewline, qifPos, qifpc, currentType, transactions, qifTx, qifRet, qifErr,
                 iifInput, iifPos, iifpc, bHeaders, bRecords, group, hIdx, fileBlocks, iifErr>>
chanVars == <<input, entry, cpc, generalLedger, namedErr, retList, retErr, cancelled,
              producedError, ppc, source, lnum, consumed, ctIdx, cpIdx, eof, slots, pending, after,
              paths, results, closed, rejected, overrun, alone,
              comments, txComments, sinceBlock, ownComments>>
vars == <<lines, pc, via, parsed, curOrder, tx, err, trans, tx2, err2, curOrder2,
          input, entry, cpc, generalLedger, namedErr, retList, retErr, cancelled,
          producedError, ppc, source, lnum, consumed, ctIdx, cpIdx, eof, slots, pending, after,
          paths, results, closed, rejected, overrun, alone,
          comments, txComments, sinceBlock, ownComments,
          cbpc, cbline, cbeof, blocks, tlist, cbret, appendTmp, cbarg, cbIncludes, unreadable,
          delivered, reported, cClosed, eClosed, produced,
          qifInput, qifNewline, qifPos, qifpc, currentType, transactions, qifTx, qifRet, qifErr,
          iifInput, iifPos, iifpc, bHeaders, bRecords, group, hIdx, fileBlocks, iifErr>>

\* ---------------------------------------------------------- Account values
zeroAccount == [Currency |-> "", Balance |-> 0, Converted |-> Nil,
                ConversionFactor |-> Nil]

\* Account.parsePosting with the currency group in the grammar.
parsePosting(line) ==
    [Currency |-> line.currency,
     Balance |-> IF line.amount # Nil THEN line.amount[1] * Scale ELSE 0,
     Converted |-> IF line.at = "@@" THEN Ptr(line.atval * Scale) ELSE Nil,
     ConversionFactor |-> IF line.at = "@" THEN Ptr(line.atval * Scale) ELSE Nil]

\* The error Account.parsePosting returns: the one of compute.Evaluate.  Name
\* and Currency are assigned before, Balance and the rest are not.
parsePostingError(line) == IF line.kind = "failing" THEN ErrEvaluate ELSE NoErr

\* Account.parsePosting of the grammar without a currency group: a line with
\* a currency token only matches as a name, so no amount is read from it.
parsePostingNoCurrency(line) ==
    IF line.currency # "" THEN zeroAccount
    ELSE [parsePosting(line) EXCEPT !.Currency = ""]

\* The lines of a block that are postings (comment-only lines are skipped).
RECURSIVE postingLines(_)
postingLines(ls) ==
    IF ls = <<>> THEN <<>>
    ELSE IF Head(ls).kind = "comment" THEN postingLines(Tail(ls))
    ELSE <<Head(ls)>> \o postingLines(Tail(ls))

\* ------------------------------------------------------------- summation
\* The common-unit contribution of one posting, in units of 1/Scale^2.
contribution(acc) ==
    IF acc.Converted # Nil THEN (0 - acc.Converted[1]) * Scale
    ELSE IF acc.ConversionFactor # Nil THEN acc.Balance * acc.ConversionFactor[1]
    ELSE acc.Balance * Scale

RECURSIVE sumOver(_, _)
sumOver(ac, idxs) ==
    IF idxs = {} THEN 0
    ELSE LET i == CHOOSE j \in idxs : TRUE
         IN contribution(ac[i]) + sumOver(ac, idxs \ {i})

transBal(ac) == sumOver(ac, DOMAIN ac)

emptyIndices(ac) == {i \in DOMAIN ac : ac[i].Balance = 0}
numEmpty(ac) == Cardinality(emptyIndices(ac))
\* The loop overwrites emptyAccIndex on every empty posting: the last one stays.
emptyAccIndex(ac) ==
    IF emptyIndices(ac) = {} THEN 0
    ELSE CHOOSE i \in emptyIndices(ac) : \A j \in emptyIndices(ac) : j <= i

\* decimal.Div: the quotient rounded half away from zero to DivisionPrecision
\* digits.  a and b are counted in the same unit, the result in 1/Scale.
decimalDiv(a, b) ==
    LET n == Abs(a) * Scale
        d == Abs(b)
        q == n \div d
        r == n % d
        mag == IF 2 * r >= d THEN q + 1 ELSE q
    IN IF (a < 0) # (b < 0) THEN 0 - mag ELSE mag

\* ------------------------------------------------------------- balancing
\* IsBalanced's first check.
tooFewPostingsBelowOne(ac) == Len(ac) < 1
tooFewPostings(ac) == Len(ac) < 2

\* The switch on numEmpty that runs when the total is not zero.
switchNoNeg(ac, bal, n, idx) ==
    CASE n = 0 -> [err |-> ErrNoEmptyAccountForExtraBalance, ac |-> ac]
      [] n = 1 -> [err |-> NoErr, ac |-> [ac EXCEPT ![idx].Balance = bal \div Scale]]
      [] OTHER -> [err |-> ErrMoreThanOneEmptyAccountInTx, ac |-> ac]
switchLastEmptyTakesAll(ac, bal, n, idx) ==
    CASE n = 0 -> [err |-> ErrNoEmptyAccountForExtraBalance, ac |-> ac]
      [] OTHER -> [err |-> NoErr,
                   ac |-> [ac EXCEPT ![idx].Balance = (0 - bal) \div Scale]]
switchNoEmptyAccepted(ac, bal, n, idx) ==
    CASE n = 0 -> [err |-> NoErr, ac |-> ac]
      [] n = 1 -> [err |-> NoErr,
                   ac |-> [ac EXCEPT ![idx].Balance = (0 - bal) \div Scale]]
      [] OTHER -> [err |-> ErrMoreThanOneEmptyAccountInTx, ac |-> ac]
switchNumEmpty(ac, bal, n, idx) ==
    CASE n = 0 -> [err |-> ErrNoEmptyAccountForExtraBalance, ac |-> ac]
      [] n = 1 -> [err |-> NoErr,
                   ac |-> [ac EXCEPT ![idx].Balance = (0 - bal) \div Scale]]
      [] OTHER -> [err |-> ErrMoreThanOneEmptyAccountInTx, ac |-> ac]

\* `if !transBal.IsZero()`
alwaysAdjust(bal) == TRUE
needsAdjust(bal) == bal # 0

\* The summation loop and the balance resolution of IsBalanced.
balanceCheck(ac) ==
    LET bal == transBal(ac)
    IN IF needsAdjust(bal)
       THEN switchNumEmpty(ac, bal, numEmpty(ac), emptyAccIndex(ac))
       ELSE [err |-> NoErr, ac |-> ac]

\* ---------------------------------------------- two-currency inference
currencyKeys(ac) == {ac[i].Currency : i \in DOMAIN ac}
groupIndices(ac, k) == {i \in DOMAIN ac : ac[i].Currency = k}

\* `if len(currencyMap) != 2 { return nil }`: TRUE when inference goes on.
mapLenAtLeastTwo(n) == n >= 2
mapLenIsTwo(n) == n = 2

\* TRUE when the call reaches `for k, g := range currencyMap`.
reachesMapRange(ac) ==
    /\ ~tooFewPostings(ac)
    /\ "" \notin currencyKeys(ac)
    /\ mapLenIsTwo(Cardinality(currencyKeys(ac)))

RECURSIVE mapRangeOrders(_)
mapRangeOrders(S) ==
    IF S = {} THEN {<<>>}
    ELSE UNION {{<<x>> \o p : p \in mapRangeOrders(S \ {x})} : x \in S}

\* The orders in which a Go map range may yield the keys: any.
MapOrders(ac) == IF reachesMapRange(ac) THEN mapRangeOrders(currencyKeys(ac)) ELSE {<<>>}

hasConv(ac, idxs) == \E i \in idxs : ac[i].ConversionFactor # Nil

sumForGroup(ac, idxs) == sumOver(ac, idxs)
\* The second loop adds, for every posting, the same term as sumForGroup.
sumOtherRaw(ac, idxs) == sumOver(ac, idxs)

\* `if acc.ConversionFactor == nil && acc.Converted == nil`: the postings the
\* inferred factor is written to.
anyPosting(acc) == TRUE
takesFactor(acc) == acc.ConversionFactor = Nil /\ acc.Converted = Nil

\* inferConversionFactorForTwoCurrencyTx; order is the map range order.
inferConversionFactorForTwoCurrencyTx(ac, order) ==
    IF "" \in currencyKeys(ac) THEN ac
    ELSE IF ~mapLenIsTwo(Cardinality(currencyKeys(ac))) THEN ac
    ELSE
      LET g0 == groupIndices(ac, order[1])
          g1 == groupIndices(ac, order[2])
          hasConv0 == hasConv(ac, g0)
          hasConv1 == hasConv(ac, g1)
          base == IF hasConv0 /\ ~hasConv1 THEN g1 ELSE g0
          other == IF hasConv0 /\ ~hasConv1 THEN g0 ELSE g1
          sumBase == sumForGroup(ac, base)
          sumOther == sumOtherRaw(ac, other)
          factor == decimalDiv(0 - sumBase, sumOther)
      IN IF hasConv0 /\ hasConv1 THEN ac
         ELSE IF sumOther = 0 THEN ac
         ELSE IF sumBase + sumOther = 0 THEN ac
         ELSE [i \in DOMAIN ac |->
                 IF i \in other /\ takesFactor(ac[i])
                 THEN [ac[i] EXCEPT !.ConversionFactor = Ptr(factor)]
                 ELSE ac[i]]

\* Transaction.IsBalanced: the error returned and t.AccountChanges afterwards.
IsBalanced(ac, order) ==
    IF tooFewPostings(ac) THEN [err |-> ErrNeedAtLeastTwoPostings, ac |-> ac]
    ELSE balanceCheck(inferConversionFactorForTwoCurrencyTx(ac, order))

\* parser.parseTransaction of the grammar without currencies: it sums while it
\* scans, then checks the number of postings and resolves the balance itself.
inlineBalance(ac) ==
    LET bal == transBal(ac)
        n == numEmpty(ac)
        idx == emptyAccIndex(ac)
    IN IF Len(ac) < 2 THEN [err |-> ErrNeedAtLeastTwoPostings, ac |-> ac]
       ELSE IF bal # 0
       THEN CASE n = 0 -> [err |-> ErrNoEmptyAccountForExtraBalance, ac |-> ac]
              [] n = 1 -> [err |-> NoErr,
                           ac |-> [ac EXCEPT ![idx].Balance = (0 - bal) \div Scale]]
              [] OTHER -> [err |-> ErrMoreThanOneEmptyAccountInTx, ac |-> ac]
       ELSE [err |-> NoErr, ac |-> ac]

\* The postings block.parseTransaction appends to trans.AccountChanges.
blockPostings(ls) ==
    LET pl == postingLines(ls) IN [i \in 1..Len(pl) |-> parsePosting(pl[i])]
\* The postings parser.parseTransaction fills in lp.postings.
inlinePostings(ls) ==
    LET pl == postingLines(ls) IN [i \in 1..Len(pl) |-> parsePostingNoCurrency(pl[i])]

\* ------------------------------------------------- the channel-based driver
\* ParseLedger / ParseLedgerFile start parseLedger in a goroutine and range over
\* its result channel; an include starts one more parseLedger per matched file
\* and forwards its results.  Invocation d reads a file that is revealed line
\* by line as its scanner advances; invocation d + 1 is the file included by d.
Levels == 0..MaxDepth
IncludeNames == <<"a.ledger", "b.ledger", "c.ledger", "d.ledger">>
\* filepath.Glob: the n files an include pattern matches, in sorted order.
globPaths(n) == [i \in 1..n |-> IncludeNames[i]]
\* The same when the pattern (such as *.ledger) also matches the including
\* file src, whose name sorts last.
globPathsWithSelf(src, n) == [i \in 1..n |-> IF i = n THEN src ELSE IncludeNames[i]]

\* One physical line of a file.  text is what the posting grammar sees in it.
DriverPostingLines ==
    {NameOnlyLine}
    \cup [kind : {"posting"}, currency : {""}, amount : {Ptr(-1), Ptr(1)},
          at : {""}, atval : {0}]
RawLines ==
    [kind : {"blank", "spaces", "comment", "nosplit", "baddate", "header", "account"},
     matches : {0}, text : {NameOnlyLine}]
    \cup [kind : {"include"}, matches : 0..MaxMatches, text : {NameOnlyLine}]
    \cup [kind : {"posting"}, matches : {0}, text : DriverPostingLines]

\* How the loop of parseLedger reads a line: trimmed, comment cut off, split at
\* the first space.  A posting line is read as a header there: a bare account
\* name has no space to split on, a name with an amount has a first word that
\* is no date.
headerClass(l) ==
    CASE l.kind \in {"blank", "spaces", "comment"} -> "skip"
      [] l.kind = "nosplit" -> "nosplit"
      [] l.kind = "posting" -> IF l.text.amount = Nil THEN "nosplit" ELSE "baddate"
      [] OTHER -> l.kind

\* How the loop of parser.parseTransaction reads a line: only a line of length
\* zero ends the block, a comment-only line is kept as a comment, and any
\* other line goes to parsePosting.
bodyClass(l) ==
    CASE l.kind = "blank" -> "end"
      [] l.kind = "comment" -> "comment"
      [] OTHER -> "posting"
\* What parsePosting finds in a line at that place: a line that is no posting
\* matches as a bare name (or not at all), so no amount is read.
bodyText(l) == IF l.kind = "posting" THEN l.text ELSE NameOnlyLine

\* parsePosting on a slot of lp.postings: only the fields the line carries
\* are assigned, the others keep what the slot held.
parsePostingInto(slot, text) ==
    LET a == parsePostingNoCurrency(text)
    IN [Currency |-> "",
        Balance |-> IF text.amount # Nil /\ text.currency = "" THEN a.Balance
                    ELSE slot.Balance,
        Converted |-> IF a.Converted # Nil THEN a.Converted ELSE slot.Converted,
        ConversionFactor |-> IF a.ConversionFactor # Nil THEN a.ConversionFactor
                             ELSE slot.ConversionFactor]

ErrPayeeLine == "unable to parse payee line"
ErrDate == "unable to parse date"
ErrNotFound == "not found"
ErrOpen == "open failed"

\* result{trans, nil} and result{nil, fmt.Errorf("%s:%d: ...: %w", ...)}
\* The payee of a header is taken to name the file and the physical line the
\* header stands on.
payeeAt(src, line) == [file |-> src, line |-> line]
txResult(payee, ac) ==
    [Transaction |-> Ptr([Payee |-> payee, AccountChanges |-> ac]), error |-> Nil]
errResult(src, line, cause) ==
    [Transaction |-> Nil,
     error |-> Ptr([source |-> src, line |-> line, cause |-> cause])]

\* The lines parseTransaction may scan before the block ends, and the bodies
\* of at most n such lines.
RawBodyLines == {l \in RawLines : bodyClass(l) # "end"}
\* What the loop over a block's lines makes of such a line: a comment, or the
\* text handed to parsePosting.
bodyReading(l) == IF bodyClass(l) = "comment" THEN CommentLine ELSE bodyText(l)
BodyReadings == {bodyReading(l) : l \in RawBodyLines}
bodiesUpTo(n) == UNION {[1..k -> BodyReadings] : k \in 0..n}
\* Posting lines with an explicit conversion, `@@ total` or `@ rate`.
DriverConversionLines ==
    [kind : {"posting"}, currency : {""}, amount : {Ptr(1)},
     at : {"@", "@@"}, atval : {1}]
\* The bodies parser.parseTransaction of parseLedger may scan.  Lines with a
\* conversion occur in an input that was drawn with conversions.
driverBodies(n) ==
    IF input = "conversions"
    THEN UNION {[1..k -> BodyReadings \cup DriverConversionLines] : k \in 0..n}
    ELSE bodiesUpTo(n)

slotAt(sl, i) == IF i <= Len(sl) THEN sl[i] ELSE zeroAccount
\* The postings parseTransaction reads from a block body into lp.postings,
\* whose slots from cpIdx on hold sl; acc are the postings read so far.
RECURSIVE scanPostings(_, _, _)
scanPostings(sl, body, acc) ==
    IF body = <<>> THEN acc
    ELSE IF Head(body) = CommentLine THEN scanPostings(sl, Tail(body), acc)
    ELSE scanPostings(sl, Tail(body),
             Append(acc, parsePostingInto(slotAt(sl, Len(acc) + 1), Head(body))))
\* lp.postings from cpIdx on, once the postings acc were written into it.
slotsWritten(sl, acc) ==
    LET n == IF Len(acc) > Len(sl) THEN Len(acc) ELSE Len(sl)
    IN [i \in 1..n |-> IF i <= Len(acc) THEN acc[i] ELSE sl[i]]

\* The texts an entry point is run on: with comments or with conversions
\* for ParseLedgerAsync, without either for the others.
inputsOf(e) ==
    IF e = "ParseLedgerAsync" THEN {"comments", "conversions"} ELSE {"plain"}
\* The driver before anything ran: caller at c in entry point e.
chanInit(e, c) ==
    /\ entry = e
    /\ input \in inputsOf(e)
    /\ cpc = c
    /\ generalLedger = <<>>
    /\ namedErr = NoErr
    /\ retList = <<>>
    /\ retErr = NoErr
    /\ cancelled = FALSE
    /\ producedError = FALSE
    /\ ppc = [d \in Levels |-> "idle"]
    /\ source = [d \in Levels |-> ""]
    /\ lnum = [d \in Levels |-> 0]
    /\ consumed = [d \in Levels |-> 0]
    /\ ctIdx = [d \in Levels |-> 0]
    /\ cpIdx = [d \in Levels |-> 0]
    /\ eof = [d \in Levels |-> FALSE]
    /\ slots = [d \in Levels |-> <<>>]
    /\ pending = [d \in Levels |-> Nil]
    /\ after = [d \in Levels |-> ""]
    /\ paths = [d \in Levels |-> <<>>]
    /\ results = [d \in Levels |-> <<>>]
    /\ closed = [d \in Levels |-> FALSE]
    /\ rejected = [d \in Levels |-> FALSE]
    /\ overrun = [d \in Levels |-> FALSE]
    /\ alone = [d \in Levels |-> Nil]
    /\ comments = [d \in Levels |-> <<>>]
    /\ txComments = [d \in Levels |-> <<>>]
    /\ sinceBlock = [d \in Levels |-> <<>>]
    /\ ownComments = [d \in Levels |-> <<>>]

\* The callback-based driver before anything ran.  File 0 is the one given to
\* the entry point, file i >= 1 the i-th file an include pattern matches.
Files == 0..MaxMatches
cbInit ==
    /\ cbpc = [i \in Files |-> "idle"]
    /\ cbline = [i \in Files |-> 0]
    /\ cbeof = [i \in Files |-> FALSE]
    /\ blocks = [i \in Files |-> <<>>]
    /\ tlist = [i \in Files |-> <<>>]
    /\ cbret = [i \in Files |-> FALSE]
    /\ appendTmp = [i \in Files |-> Nil]
    /\ cbarg = [i \in Files |-> Nil]
    /\ cbIncludes = 0
    /\ unreadable = [i \in Files |-> FALSE]

\* ParseLedgerAsync before anything ran: two open channels, nothing received.
asyncInit ==
    /\ delivered = <<>>
    /\ reported = <<>>
    /\ cClosed = FALSE
    /\ eClosed = FALSE
    /\ produced = <<>>

\* The QIF decoder before NewDecoder was called on the text ls.
qifInit(ls, nl, c) ==
    /\ qifInput = ls
    /\ qifNewline = nl
    /\ qifPos = 0
    /\ qifpc = c
    /\ currentType = ""
    /\ transactions = <<>>
    /\ qifTx = Nil
    /\ qifRet = <<>>
    /\ qifErr = NoErr
\* No decoder runs.
\* The IIF decoder NewDecoder returns for the rows rs: it has read one row.
iifInit(rs, c) ==
    /\ iifInput = rs
    /\ iifPos = 1
    /\ iifpc = c
    /\ bHeaders = <<>>
    /\ bRecords = <<>>
    /\ group = <<>>
    /\ hIdx = 0
    /\ fileBlocks = <<>>
    /\ iifErr = NoErr
decoderInit == qifInit(<<>>, TRUE, "idle") /\ iifInit(<<>>, "idle")

\* The history of results built, kept while ParseLedgerAsync runs.
record(r) == IF entry = "ParseLedgerAsync" THEN Append(produced, r) ELSE produced

\* The length bound of the file invocation d reads, and whether its scanner
\* has a further line.
fileLines(d) ==
    IF d > 0 THEN MaxIncludedLines
    ELSE IF entry = "ParseLedgerAsync"
         THEN (IF input = "conversions" THEN MaxConversionFileLines
               ELSE MaxAsyncFileLines)
         ELSE MaxFileLines
canScan(d) == ~eof[d] /\ consumed[d] < fileLines(d)
\* The comments cs as far as the model follows them: the text of comments is
\* followed in an input that was drawn with comments.
kept(cs) == IF input = "comments" THEN cs ELSE <<>>
\* parser.scan reads n more lines.
advance(d, n) ==
    /\ lnum' = [lnum EXCEPT ![d] = @ + n]
    /\ consumed' = [consumed EXCEPT ![d] = @ + n]

\* ---------------------------------------------------------------- actions
BalInit ==
    /\ lines = <<>>
    /\ pc = "scan"
    /\ via = ""
    /\ parsed = <<>>
    /\ curOrder = <<>>
    /\ tx = <<>>
    /\ err = NoErr
    /\ trans = Nil
    /\ tx2 = <<>>
    /\ err2 = NoErr
    /\ curOrder2 = <<>>

Init == BalInit /\ chanInit("", "idle") /\ cbInit /\ asyncInit /\ decoderInit

\* parser.parseBlock reads one more line of the block.
ScanLine ==
    /\ pc = "scan"
    /\ Len(lines) < MaxLines
    /\ \E l \in BodyLines :
         /\ l.currency \in allowedCurrencies(lines)
         /\ lines' = Append(lines, l)
    /\ UNCHANGED <<pc, via, parsed, curOrder, tx, err, trans, tx2, err2, curOrder2>>
    /\ UNCHANGED chanVars /\ UNCHANGED cbVars /\ UNCHANGED asyncVars /\ UNCHANGED decoderVars

\* The block ends (blank line or end of input); block.parseTransaction
\* builds the postings and calls IsBalanced.
BlockParseTransaction ==
    /\ pc = "scan"
    /\ LET ac == blockPostings(lines)
       IN \E order \in MapOrders(ac) :
            LET r == IsBalanced(ac, order)
            IN /\ parsed' = ac
               /\ curOrder' = order
               /\ tx' = r.ac
               /\ err' = r.err
               /\ trans' = IF r.err # NoErr THEN Nil ELSE Ptr(r.ac)
    /\ pc' = "done"
    /\ via' = "block"
    /\ UNCHANGED <<lines, tx2, err2, curOrder2>>
    /\ UNCHANGED chanVars /\ UNCHANGED cbVars /\ UNCHANGED asyncVars /\ UNCHANGED decoderVars

\* The block ends; parser.parseTransaction (grammar without currencies)
\* resolves the balance of the postings it scanned.  Under that grammar a line
\* with a currency token reads as a name-only line, which NameOnlyLine covers.
InlineParseTransaction ==
    /\ pc = "scan"
    /\ usedCurrencies(lines) = {}
    /\ LET ac == inlinePostings(lines)
           r == inlineBalance(ac)
       IN /\ parsed' = ac
          /\ tx' = r.ac
          /\ err' = r.err
          /\ trans' = IF r.err # NoErr THEN Nil ELSE Ptr(r.ac)
    /\ curOrder' = <<>>
    /\ pc' = "done"
    /\ via' = "inline"
    /\ UNCHANGED <<lines, tx2, err2, curOrder2>>
    /\ UNCHANGED chanVars /\ UNCHANGED cbVars /\ UNCHANGED asyncVars /\ UNCHANGED decoderVars

Next == ScanLine \/ BlockParseTransaction \/ InlineParseTransaction

Spec == Init /\ [][Next]_vars

\* IsBalanced is called on a transaction equal to the one just balanced (the
\* same block parsed a second time).
ParseEqualTransaction ==
    /\ pc = "done"
    /\ via = "block"
    /\ \E order \in MapOrders(parsed) :
         LET r == IsBalanced(parsed, order)
         IN /\ curOrder2' = order
            /\ tx2' = r.ac
            /\ err2' = r.err
    /\ pc' = "again"
    /\ UNCHANGED <<lines, via, parsed, curOrder, tx, err, trans>>
    /\ UNCHANGED chanVars /\ UNCHANGED cbVars /\ UNCHANGED asyncVars /\ UNCHANGED decoderVars

NextTwice == Next \/ ParseEqualTransaction

SpecTwice == Init /\ [][NextTwice]_vars

\* IsBalanced is called a second time on the transaction for which it has
\* just returned nil.
IsBalancedAgain ==
    /\ pc = "done"
    /\ via = "block"
    /\ err = NoErr
    /\ \E order \in MapOrders(tx) :
         LET r == IsBalanced(tx, order)
         IN /\ curOrder2' = order
            /\ tx2' = r.ac
            /\ err2' = r.err
    /\ pc' = "twice"
    /\ UNCHANGED <<lines, via, parsed, curOrder, tx, err, trans>>
    /\ UNCHANGED chanVars /\ UNCHANGED cbVars /\ UNCHANGED asyncVars /\ UNCHANGED decoderVars

NextAgain == Next \/ IsBalancedAgain

SpecAgain == Init /\ [][NextAgain]_vars

\* ------------------------------------------------- parseLedger (goroutine)
\* The end of `for lp.scan()`: the function returns and the deferred
\* close(results) runs.
ScanEOF(d) ==
    /\ ppc[d] = "loop"
    /\ ppc' = [ppc EXCEPT ![d] = "done"]
    /\ eof' = [eof EXCEPT ![d] = TRUE]
    /\ closed' = [closed EXCEPT ![d] = TRUE]
    /\ UNCHANGED <<producedError, source, lnum, consumed, slots, pending,
                   after, paths, results, ctIdx, cpIdx>>
    /\ UNCHANGED callerVars /\ UNCHANGED balVars /\ UNCHANGED input /\ UNCHANGED decoderVars /\ UNCHANGED cbVars /\ UNCHANGED asyncVars /\ UNCHANGED <<rejected, overrun, alone>> /\ UNCHANGED commentVars

\* An empty line or a comment-only line between blocks.
ScanSkip(d) ==
    /\ ppc[d] = "loop" /\ canScan(d)
    /\ \E l \in RawLines :
         /\ headerClass(l) = "skip"
         /\ rejected' = [rejected EXCEPT ![d] = @ /\ l.kind = "comment"]
         /\ comments' = [comments EXCEPT ![d] =
                IF l.kind = "comment" THEN @ \o kept(<<consumed[d] + 1>>) ELSE @]
         /\ sinceBlock' = [sinceBlock EXCEPT ![d] =
                IF l.kind = "comment" /\ ~rejected[d]
                THEN @ \o kept(<<consumed[d] + 1>>) ELSE @]
    /\ UNCHANGED <<overrun, alone, txComments, ownComments>>
    /\ advance(d, 1)
    /\ UNCHANGED <<producedError, ppc, source, eof, slots, pending, after,
                   paths, results, closed, ctIdx, cpIdx>>
    /\ UNCHANGED callerVars /\ UNCHANGED balVars /\ UNCHANGED input /\ UNCHANGED decoderVars /\ UNCHANGED cbVars /\ UNCHANGED asyncVars

\* A header line that fails: no space to split on, or a first word that
\* parseDate rejects (parseTransaction returns before it scans a line).
ScanBadHeader(d) ==
    /\ ppc[d] = "loop" /\ canScan(d)
    /\ \E l \in RawLines, inline \in BOOLEAN :
         /\ headerClass(l) \in {"nosplit", "baddate"}
         /\ comments' = [comments EXCEPT ![d] =
                IF inline /\ headerClass(l) = "nosplit"
                THEN @ \o kept(<<consumed[d] + 1>>) ELSE @]
         /\ LET r == errResult(source[d], lnum[d] + 1,
                    IF headerClass(l) = "nosplit" THEN ErrPayeeLine ELSE ErrDate)
            IN /\ pending' = [pending EXCEPT ![d] = Ptr(r)]
               /\ produced' = record(r)
    /\ rejected' = [rejected EXCEPT ![d] = TRUE]
    /\ sinceBlock' = [sinceBlock EXCEPT ![d] = <<>>]
    /\ UNCHANGED <<overrun, alone, txComments, ownComments>>
    /\ advance(d, 1)
    /\ after' = [after EXCEPT ![d] = "loop"]
    /\ ppc' = [ppc EXCEPT ![d] = "send"]
    /\ producedError' = TRUE
    /\ UNCHANGED <<source, eof, slots, paths, results, closed, ctIdx, cpIdx>>
    /\ UNCHANGED callerVars /\ UNCHANGED balVars /\ UNCHANGED input /\ UNCHANGED decoderVars /\ UNCHANGED cbVars /\ UNCHANGED deliveryVars

\* The lines parser.skipAccount reads on from: those whose untrimmed text is
\* not of length zero.  "spaces" is a line that holds white space only.
SkippedKinds == {"spaces", "text"}
\* Some line but the last of ls is blank once its white space is trimmed.
readsPastBlank(ls) == \E i \in 1..(Len(ls) - 1) : ls[i] = "spaces"

\* `case "account": lp.skipAccount()`: the lines up to a line of length zero
\* (the lines ls that are not, then that line) or up to the end of input are
\* read.
ScanAccount(d) ==
    /\ ppc[d] = "loop" /\ canScan(d)
    /\ \E l \in RawLines : headerClass(l) = "account"
    /\ rejected' = [rejected EXCEPT ![d] = FALSE]
    /\ sinceBlock' = [sinceBlock EXCEPT ![d] = <<>>]
    /\ UNCHANGED <<comments, txComments, ownComments>>
    /\ \E k \in 0..(fileLines(d) - consumed[d] - 1) :
         \E ls \in [1..k -> SkippedKinds] :
            /\ overrun' = [overrun EXCEPT ![d] = @ \/ readsPastBlank(ls)]
            /\ UNCHANGED alone
            /\ \/ /\ consumed[d] + 1 + k < fileLines(d)
                  /\ advance(d, 1 + k + 1)
                  /\ UNCHANGED eof
               \/ /\ advance(d, 1 + k)
                  /\ eof' = [eof EXCEPT ![d] = TRUE]
    /\ UNCHANGED <<producedError, ppc, source, slots, pending, after, paths,
                   results, closed, ctIdx, cpIdx>>
    /\ UNCHANGED callerVars /\ UNCHANGED balVars /\ UNCHANGED input /\ UNCHANGED decoderVars /\ UNCHANGED cbVars /\ UNCHANGED asyncVars

\* `case "include"` with a pattern that matches no file: the error is sent and
\* parseLedger returns.
IncludeNotFound(d) ==
    /\ ppc[d] = "loop" /\ canScan(d)
    /\ \E l \in RawLines : headerClass(l) = "include" /\ l.matches = 0
    /\ advance(d, 1)
    /\ pending' = [pending EXCEPT ![d] =
                       Ptr(errResult(source[d], lnum[d] + 1, ErrNotFound))]
    /\ produced' = record(errResult(source[d], lnum[d] + 1, ErrNotFound))
    /\ rejected' = [rejected EXCEPT ![d] = FALSE]
    /\ sinceBlock' = [sinceBlock EXCEPT ![d] = <<>>]
    /\ UNCHANGED <<overrun, alone, comments, txComments, ownComments>>
    /\ after' = [after EXCEPT ![d] = "return"]
    /\ ppc' = [ppc EXCEPT ![d] = "send"]
    /\ producedError' = TRUE
    /\ UNCHANGED <<source, eof, slots, paths, results, closed, ctIdx, cpIdx>>
    /\ UNCHANGED callerVars /\ UNCHANGED balVars /\ UNCHANGED input /\ UNCHANGED decoderVars /\ UNCHANGED cbVars /\ UNCHANGED deliveryVars

\* `go parseLedger(incpath, ifile, incresults, ctx)` for the path p.
spawn(d, p, rest) ==
    /\ ppc' = [ppc EXCEPT ![d] = "fwd", ![d + 1] = "loop"]
    /\ paths' = [paths EXCEPT ![d] = rest, ![d + 1] = <<>>]
    /\ source' = [source EXCEPT ![d + 1] = p]
    /\ eof' = [eof EXCEPT ![d + 1] = FALSE]
    /\ slots' = [slots EXCEPT ![d + 1] = <<>>]
    /\ pending' = [pending EXCEPT ![d + 1] = Nil]
    /\ after' = [after EXCEPT ![d + 1] = ""]
    /\ results' = [results EXCEPT ![d + 1] = <<>>]
    /\ closed' = [closed EXCEPT ![d + 1] = FALSE]
    /\ ctIdx' = [ctIdx EXCEPT ![d + 1] = 0]
    /\ cpIdx' = [cpIdx EXCEPT ![d + 1] = 0]
    /\ rejected' = [rejected EXCEPT ![d] = FALSE, ![d + 1] = FALSE]
    /\ overrun' = [overrun EXCEPT ![d + 1] = FALSE]
    /\ alone' = [alone EXCEPT ![d + 1] = Nil]
    /\ comments' = [comments EXCEPT ![d + 1] = <<>>]
    /\ txComments' = [txComments EXCEPT ![d + 1] = <<>>]
    /\ sinceBlock' = [sinceBlock EXCEPT ![d] = <<>>, ![d + 1] = <<>>]
    /\ ownComments' = [ownComments EXCEPT ![d + 1] = <<>>]

\* `case "include"` with matches: the first matched file is started.
IncludeStart(d) ==
    /\ d < MaxDepth
    /\ cbIncludes < MaxIncludes
    /\ ppc[d] = "loop" /\ canScan(d)
    /\ \E l \in RawLines, self \in BOOLEAN :
         /\ headerClass(l) = "include" /\ l.matches >= 1
         /\ self => source[d] # ""
         /\ LET ps == IF self THEN globPathsWithSelf(source[d], l.matches)
                      ELSE globPaths(l.matches)
            IN spawn(d, Head(ps), Tail(ps))
    /\ lnum' = [lnum EXCEPT ![d] = @ + 1, ![d + 1] = 0]
    /\ consumed' = [consumed EXCEPT ![d] = @ + 1, ![d + 1] = 0]
    /\ cbIncludes' = cbIncludes + 1
    /\ UNCHANGED producedError
    /\ UNCHANGED <<cbpc, cbline, cbeof, blocks, tlist, cbret, appendTmp, cbarg, unreadable>>
    /\ UNCHANGED callerVars /\ UNCHANGED balVars /\ UNCHANGED input /\ UNCHANGED decoderVars /\ UNCHANGED asyncVars

\* `for result := range incresults { results <- result }`: one result is
\* received from the included file.
IncludeForward(d) ==
    /\ d < MaxDepth
    /\ ppc[d] = "fwd"
    /\ results[d + 1] # <<>>
    /\ pending' = [pending EXCEPT ![d] = Ptr(Head(results[d + 1]))]
    /\ results' = [results EXCEPT ![d + 1] = Tail(@)]
    /\ after' = [after EXCEPT ![d] = "fwd"]
    /\ ppc' = [ppc EXCEPT ![d] = "send"]
    /\ UNCHANGED <<producedError, source, lnum, consumed, ctIdx, cpIdx, eof,
                   slots, paths, closed>>
    /\ UNCHANGED callerVars /\ UNCHANGED balVars /\ UNCHANGED input /\ UNCHANGED decoderVars /\ UNCHANGED cbVars /\ UNCHANGED asyncVars /\ UNCHANGED <<rejected, overrun, alone>> /\ UNCHANGED commentVars

\* `for result := range incresults` ends: the channel of invocation d holds
\* nothing more and is closed.
emptied(d) == results[d] = <<>>
drained(d) == results[d] = <<>> /\ closed[d]

\* The included file's channel is closed and drained: the next matched file
\* is started.
IncludeNext(d) ==
    /\ d < MaxDepth
    /\ ppc[d] = "fwd"
    /\ drained(d + 1)
    /\ paths[d] # <<>>
    /\ spawn(d, Head(paths[d]), Tail(paths[d]))
    /\ lnum' = [lnum EXCEPT ![d + 1] = 0]
    /\ consumed' = [consumed EXCEPT ![d + 1] = 0]
    /\ UNCHANGED producedError
    /\ UNCHANGED callerVars /\ UNCHANGED balVars /\ UNCHANGED input /\ UNCHANGED decoderVars /\ UNCHANGED cbVars /\ UNCHANGED asyncVars

\* The last matched file is drained: back to the scan loop.
IncludeDone(d) ==
    /\ d < MaxDepth
    /\ ppc[d] = "fwd"
    /\ drained(d + 1)
    /\ paths[d] = <<>>
    /\ ppc' = [ppc EXCEPT ![d] = "loop"]
    /\ UNCHANGED <<producedError, source, lnum, consumed, ctIdx, cpIdx, eof,
                   slots, pending, after, paths, results, closed>>
    /\ UNCHANGED callerVars /\ UNCHANGED balVars /\ UNCHANGED input /\ UNCHANGED decoderVars /\ UNCHANGED cbVars /\ UNCHANGED asyncVars /\ UNCHANGED <<rejected, overrun, alone>> /\ UNCHANGED commentVars

\* parser.grow after a transaction: once fewer than preAllocWarn transaction
\* slots or 3 * preAllocWarn posting slots are left, parser.init allocates
\* fresh slices and sets ctIdx, cpIdx and line to zero.
growInits(ct, cp) ==
    \/ PreAllocSize - ct < PreAllocWarn
    \/ PreAllocSize * 3 - cp < PreAllocWarn * 3

\* The comment-only lines of a block body whose header stands on the
\* physical line base, each named by its physical line.
commentLines(body, base) ==
    SelectSeq([k \in 1..Len(body) |-> base + k],
              LAMBDA n : body[n - base] = CommentLine)

\* The result parseLedger builds for a block of n lines whose header is the
\* next line of invocation d, when parseTransaction came back with r.
ownResult(d, n, r) ==
    IF r.err # NoErr THEN errResult(source[d], lnum[d] + n, r.err)
    ELSE txResult(payeeAt(source[d], consumed[d] + 1), r.ac)

\* A header whose date parses: parseTransaction scans the body of the block
\* up to an empty line or the end of input and resolves the balance;
\* parseLedger builds the result: an error, or (unless ctx is done, when it
\* returns) the transaction.
ScanTransaction(d) ==
    /\ ppc[d] = "loop" /\ canScan(d)
    /\ \E l \in RawLines : headerClass(l) = "header"
    /\ \E body \in driverBodies(Min(fileLines(d) - consumed[d] - 1, MaxLines)),
          blank \in BOOLEAN :
         LET n == 1 + Len(body) + (IF blank THEN 1 ELSE 0)
             acc == scanPostings(slots[d], body, <<>>)
             r == inlineBalance(acc)
             w == slotsWritten(slots[d], acc)
             inits == growInits(ctIdx[d] + 1, cpIdx[d] + Len(acc))
             inside == kept(commentLines(body, consumed[d] + 1))
             r0 == inlineBalance(scanPostings(<<>>, body, <<>>))
         IN /\ consumed[d] + n <= fileLines(d)
            /\ sinceBlock' = [sinceBlock EXCEPT ![d] = <<>>]
            /\ IF r.err # NoErr
               THEN /\ comments' = [comments EXCEPT ![d] = @ \o inside]
                    /\ UNCHANGED <<txComments, ownComments>>
               ELSE /\ txComments' = [txComments EXCEPT ![d] = comments[d] \o inside]
                    /\ comments' = [comments EXCEPT ![d] = <<>>]
                    /\ ownComments' = [ownComments EXCEPT ![d] = sinceBlock[d] \o inside]
            /\ consumed' = [consumed EXCEPT ![d] = @ + n]
            /\ eof' = [eof EXCEPT ![d] = ~blank]
            /\ IF r.err # NoErr
               THEN /\ lnum' = [lnum EXCEPT ![d] = @ + n]
                    /\ pending' = [pending EXCEPT ![d] =
                           Ptr(errResult(source[d], lnum'[d], r.err))]
                    /\ alone' = [alone EXCEPT ![d] = Ptr(ownResult(d, n, r0))]
                    /\ produced' = record(
                                          errResult(source[d], lnum'[d], r.err))
                    /\ slots' = [slots EXCEPT ![d] = w]
                    /\ after' = [after EXCEPT ![d] = "loop"]
                    /\ ppc' = [ppc EXCEPT ![d] = "send"]
                    /\ producedError' = TRUE
                    /\ UNCHANGED <<closed, ctIdx, cpIdx>>
               ELSE /\ lnum' = [lnum EXCEPT ![d] = IF inits THEN 0 ELSE @ + n]
                    /\ ctIdx' = [ctIdx EXCEPT ![d] = IF inits THEN 0 ELSE @ + 1]
                    /\ cpIdx' = [cpIdx EXCEPT ![d] =
                                    IF inits THEN 0 ELSE @ + Len(acc)]
                    /\ slots' = [slots EXCEPT ![d] =
                           IF inits THEN <<>> ELSE SubSeq(w, Len(acc) + 1, Len(w))]
                    /\ UNCHANGED producedError
                    /\ IF cancelled
                       THEN /\ ppc' = [ppc EXCEPT ![d] = "done"]
                            /\ closed' = [closed EXCEPT ![d] = TRUE]
                            /\ UNCHANGED <<pending, after, produced, alone>>
                       ELSE /\ pending' = [pending EXCEPT ![d] =
                                   Ptr(txResult(payeeAt(source[d], consumed[d] + 1), r.ac))]
                            /\ alone' = [alone EXCEPT ![d] = Ptr(ownResult(d, n, r0))]
                            /\ produced' = record(
                                   txResult(payeeAt(source[d], consumed[d] + 1), r.ac))
                            /\ after' = [after EXCEPT ![d] = "loop"]
                            /\ ppc' = [ppc EXCEPT ![d] = "send"]
                            /\ UNCHANGED closed
    /\ rejected' = [rejected EXCEPT ![d] = FALSE]
    /\ UNCHANGED <<source, paths, results, overrun>>
    /\ UNCHANGED callerVars /\ UNCHANGED balVars /\ UNCHANGED input /\ UNCHANGED decoderVars /\ UNCHANGED cbVars /\ UNCHANGED deliveryVars

\* `results <- result`: blocks while the buffer is full.
Send(d) ==
    /\ ppc[d] = "send"
    /\ Len(results[d]) < ResultsCap
    /\ results' = [results EXCEPT ![d] = Append(@, pending[d][1])]
    /\ pending' = [pending EXCEPT ![d] = Nil]
    /\ ppc' = [ppc EXCEPT ![d] = IF after[d] = "return" THEN "done" ELSE after[d]]
    /\ closed' = [closed EXCEPT ![d] = (after[d] = "return")]
    /\ after' = [after EXCEPT ![d] = ""]
    /\ txComments' = [txComments EXCEPT ![d] = <<>>]
    /\ ownComments' = [ownComments EXCEPT ![d] = <<>>]
    /\ UNCHANGED <<producedError, source, lnum, consumed, ctIdx, cpIdx, eof,
                   slots, paths, comments, sinceBlock>>
    /\ UNCHANGED callerVars /\ UNCHANGED balVars /\ UNCHANGED input /\ UNCHANGED decoderVars /\ UNCHANGED cbVars /\ UNCHANGED asyncVars /\ UNCHANGED <<rejected, overrun>>
    /\ alone' = [alone EXCEPT ![d] = Nil]

\* --------------------------------------- ParseLedger / ParseLedgerFile
\* ParseLedgerFile: os.Open fails.
OpenFails ==
    /\ cpc = "start" /\ entry = "ParseLedgerFile"
    /\ cpc' = "returned"
    /\ retList' = <<>>
    /\ retErr' = ErrOpen
    /\ UNCHANGED <<entry, generalLedger, namedErr, cancelled>>
    /\ UNCHANGED prodVars /\ UNCHANGED balVars /\ UNCHANGED input /\ UNCHANGED decoderVars /\ UNCHANGED cbVars /\ UNCHANGED asyncVars

\* make(chan result, 100); context.WithCancel; go parseLedger(...)
StartParse ==
    /\ cpc = "start"
    /\ cpc' = "recv"
    /\ ppc' = [ppc EXCEPT ![0] = "loop"]
    /\ source' = [source EXCEPT ![0] = IF entry = "ParseLedgerFile" THEN "main.ledger" ELSE ""]
    /\ UNCHANGED <<producedError, lnum, consumed, eof, slots, pending, after,
                   paths, results, closed, ctIdx, cpIdx>>
    /\ UNCHANGED <<entry, generalLedger, namedErr, retList, retErr, cancelled>>
    /\ UNCHANGED balVars /\ UNCHANGED input /\ UNCHANGED decoderVars /\ UNCHANGED cbVars /\ UNCHANGED asyncVars /\ UNCHANGED <<rejected, overrun, alone>> /\ UNCHANGED commentVars

\* `generalLedger = append(generalLedger, result.Transaction)`
prepend(ledger, t) == <<t>> \o ledger
accumulate(ledger, t) == Append(ledger, t)

\* `for result := range results`: a transaction is appended.
ReceiveTransaction ==
    /\ cpc = "recv"
    /\ results[0] # <<>>
    /\ Head(results[0]).error = Nil
    /\ generalLedger' = accumulate(generalLedger, Head(results[0]).Transaction[1])
    /\ results' = [results EXCEPT ![0] = Tail(@)]
    /\ UNCHANGED <<entry, cpc, namedErr, retList, retErr, cancelled>>
    /\ UNCHANGED <<producedError, ppc, source, lnum, consumed, ctIdx, cpIdx,
                   eof, slots, pending, after, paths, closed>>
    /\ UNCHANGED balVars /\ UNCHANGED input /\ UNCHANGED decoderVars /\ UNCHANGED cbVars /\ UNCHANGED asyncVars /\ UNCHANGED <<rejected, overrun, alone>> /\ UNCHANGED commentVars

\* `if result.error != nil { return nil, err }`, then the deferred cancel().
ReceiveError ==
    /\ cpc = "recv"
    /\ results[0] # <<>>
    /\ Head(results[0]).error # Nil
    /\ results' = [results EXCEPT ![0] = Tail(@)]
    /\ retList' = <<>>
    /\ retErr' = namedErr
    /\ cancelled' = TRUE
    /\ cpc' = "returned"
    /\ UNCHANGED <<entry, generalLedger, namedErr>>
    /\ UNCHANGED <<producedError, ppc, source, lnum, consumed, ctIdx, cpIdx,
                   eof, slots, pending, after, paths, closed>>
    /\ UNCHANGED balVars /\ UNCHANGED input /\ UNCHANGED decoderVars /\ UNCHANGED cbVars /\ UNCHANGED asyncVars /\ UNCHANGED <<rejected, overrun, alone>> /\ UNCHANGED commentVars

\* The channel is closed and drained: the bare `return` of the named results.
ReturnLedger ==
    /\ cpc = "recv"
    /\ results[0] = <<>> /\ closed[0]
    /\ retList' = generalLedger
    /\ retErr' = namedErr
    /\ cancelled' = TRUE
    /\ cpc' = "returned"
    /\ UNCHANGED <<entry, generalLedger, namedErr>>
    /\ UNCHANGED prodVars /\ UNCHANGED balVars /\ UNCHANGED input /\ UNCHANGED decoderVars /\ UNCHANGED cbVars /\ UNCHANGED asyncVars

NextChan ==
    \/ OpenFails
    \/ StartParse
    \/ ReceiveTransaction
    \/ ReceiveError
    \/ ReturnLedger
    \/ \E d \in Levels : ScanEOF(d)
    \/ \E d \in Levels : ScanSkip(d)
    \/ \E d \in Levels : ScanBadHeader(d)
    \/ \E d \in Levels : ScanAccount(d)
    \/ \E d \in Levels : IncludeNotFound(d)
    \/ \E d \in Levels : IncludeStart(d)
    \/ \E d \in Levels : IncludeForward(d)
    \/ \E d \in Levels : IncludeNext(d)
    \/ \E d \in Levels : IncludeDone(d)
    \/ \E d \in Levels : ScanTransaction(d)
    \/ \E d \in Levels : Send(d)

InitChan ==
    /\ BalInit
    /\ \E e \in {"ParseLedger", "ParseLedgerFile"} : chanInit(e, "start")
    /\ cbInit
    /\ asyncInit
    /\ decoderInit

SpecChan == InitChan /\ [][NextChan]_vars

\* The same driver with a scheduler that starves no goroutine that can run.
SpecChanFair == InitChan /\ [][NextChan]_vars /\ WF_vars(NextChan)

\* ------------------------------------------------------ ParseLedgerAsync
\* The goroutine of ParseLedgerAsync ranges over the result channel and sends
\* each result on one of the two unbuffered channels c and e; a send completes
\* when the consumer, which keeps receiving from both, takes the value.
\* A send on c or e: the consumer's list q grows by the value v.
discard(q, v) == q
deliver(q, v) == Append(q, v)

\* `c <- result.Transaction`
AsyncForwardTransaction ==
    /\ cpc = "recv"
    /\ results[0] # <<>>
    /\ Head(results[0]).error = Nil
    /\ delivered' = deliver(delivered, Head(results[0]).Transaction[1])
    /\ results' = [results EXCEPT ![0] = Tail(@)]
    /\ UNCHANGED <<reported, cClosed, eClosed, produced>>
    /\ UNCHANGED <<producedError, ppc, source, lnum, consumed, ctIdx, cpIdx,
                   eof, slots, pending, after, paths, closed>>
    /\ UNCHANGED callerVars /\ UNCHANGED balVars /\ UNCHANGED input /\ UNCHANGED decoderVars /\ UNCHANGED cbVars /\ UNCHANGED <<rejected, overrun, alone>> /\ UNCHANGED commentVars

\* `e <- result.error`
AsyncForwardError ==
    /\ cpc = "recv"
    /\ results[0] # <<>>
    /\ Head(results[0]).error # Nil
    /\ reported' = deliver(reported, Head(results[0]).error[1])
    /\ results' = [results EXCEPT ![0] = Tail(@)]
    /\ UNCHANGED <<delivered, cClosed, eClosed, produced>>
    /\ UNCHANGED <<producedError, ppc, source, lnum, consumed, ctIdx, cpIdx,
                   eof, slots, pending, after, paths, closed>>
    /\ UNCHANGED callerVars /\ UNCHANGED balVars /\ UNCHANGED input /\ UNCHANGED decoderVars /\ UNCHANGED cbVars /\ UNCHANGED <<rejected, overrun, alone>> /\ UNCHANGED commentVars

\* The result channel is closed and drained: the goroutine returns and its
\* deferred close(e), close(c) and cancel() run.
AsyncClose ==
    /\ cpc = "recv"
    /\ results[0] = <<>> /\ closed[0]
    /\ eClosed' = TRUE
    /\ cClosed' = TRUE
    /\ cancelled' = TRUE
    /\ cpc' = "returned"
    /\ UNCHANGED <<entry, generalLedger, namedErr, retList, retErr>>
    /\ UNCHANGED <<delivered, reported, produced>>
    /\ UNCHANGED prodVars /\ UNCHANGED balVars /\ UNCHANGED input /\ UNCHANGED decoderVars /\ UNCHANGED cbVars

NextAsync ==
    \/ StartParse
    \/ AsyncForwardTransaction
    \/ AsyncForwardError
    \/ AsyncClose
    \/ \E d \in Levels : ScanEOF(d)
    \/ \E d \in Levels : ScanSkip(d)
    \/ \E d \in Levels : ScanBadHeader(d)
    \/ \E d \in Levels : ScanAccount(d)
    \/ \E d \in Levels : IncludeNotFound(d)
    \/ \E d \in Levels : IncludeStart(d)
    \/ \E d \in Levels : IncludeForward(d)
    \/ \E d \in Levels : IncludeNext(d)
    \/ \E d \in Levels : IncludeDone(d)
    \/ \E d \in Levels : ScanTransaction(d)
    \/ \E d \in Levels : Send(d)

InitAsync ==
    /\ BalInit
    /\ chanInit("ParseLedgerAsync", "start")
    /\ cbInit
    /\ asyncInit
    /\ decoderInit

\* Every goroutine that can take a step eventually takes one: the Go
\* scheduler starves no runnable goroutine.
SpecAsync == InitAsync /\ [][NextAsync]_vars /\ WF_vars(NextAsync)

\* ------------------------------------- the callback-based driver (part_000)
\* parseLedger(filename, reader, callback) scans the whole file, collecting
\* blocks and reporting header errors, then parses the blocks and hands the
\* list of transactions to the callback.  parser.include starts one goroutine
\* per matched file and waits for all of them.
cbName(i) ==
    IF i = 0 THEN (IF entry = "ParseLedgerFile" THEN "main.ledger" ELSE "")
    ELSE IncludeNames[i]
\* fmt.Errorf("%s:%d: unable to parse transaction: %w", name, line, cause)
Errorf(src, line, cause) ==
    src \o ":" \o ToString(line) \o ": unable to parse transaction: " \o cause
\* fmt.Errorf("%s:%d: unable to include file(%s): %w", name, line, after, ...)
IncludeErrorf(src, line) ==
    src \o ":" \o ToString(line) \o ": unable to include file(*): " \o ErrNotFound

cbFileLines(i) ==
    IF i > 0 THEN (IF entry = "ParseLedgerAsync" THEN MaxIncludedLines ELSE MaxLines)
    ELSE IF entry = "ParseLedgerAsync" THEN MaxAsyncFileLines ELSE MaxCallbackFileLines
cbCanScan(i) == ~cbeof[i] /\ ~unreadable[i] /\ cbline[i] < cbFileLines(i)
\* A step that touches only the goroutine's own variables commutes with
\* every step of another goroutine, so of the goroutines of one include that
\* stand before such a step the lowest-numbered one takes it first.  Calls of
\* the callback are taken in every order.
cbLocal(k) == cbpc[k] = "scan" \/ (cbpc[k] = "blocks" /\ blocks[k] # <<>>)
cbTurn(i) == \A k \in 1..(i - 1) : ~cbLocal(k)

\* parseLedger is about to call callback(nil, e).
cbError(i, e) ==
    /\ cbarg' = [cbarg EXCEPT ![i] = Ptr(e)]
    /\ cbpc' = [cbpc EXCEPT ![i] = "callback"]
    /\ produced' = record([Transaction |-> Nil, error |-> Ptr(e)])

CbOpenFails ==
    /\ cpc = "start" /\ entry = "ParseLedgerFile"
    /\ cpc' = "returned"
    /\ retList' = <<>>
    /\ retErr' = ErrOpen
    /\ UNCHANGED <<entry, generalLedger, namedErr, cancelled>>
    /\ UNCHANGED prodVars /\ UNCHANGED balVars /\ UNCHANGED input /\ UNCHANGED decoderVars /\ UNCHANGED cbVars /\ UNCHANGED asyncVars

\* The entry point calls parseLedger on its own goroutine.
CbStart ==
    /\ cpc = "start"
    /\ cpc' = "call"
    /\ cbpc' = [cbpc EXCEPT ![0] = "scan"]
    /\ UNCHANGED <<entry, generalLedger, namedErr, retList, retErr, cancelled>>
    /\ UNCHANGED <<cbline, cbeof, blocks, tlist, cbret, appendTmp, cbarg, cbIncludes, unreadable>>
    /\ UNCHANGED prodVars /\ UNCHANGED balVars /\ UNCHANGED input /\ UNCHANGED decoderVars /\ UNCHANGED asyncVars

\* An empty line or a comment-only line between blocks.
CbScanSkip(i) ==
    /\ cbpc[i] = "scan" /\ cbCanScan(i) /\ cbTurn(i)
    /\ \E l \in RawLines : headerClass(l) = "skip"
    /\ cbline' = [cbline EXCEPT ![i] = @ + 1]
    /\ UNCHANGED <<cbpc, cbeof, blocks, tlist, cbret, appendTmp, cbarg, cbIncludes, unreadable>>
    /\ UNCHANGED chanVars /\ UNCHANGED balVars /\ UNCHANGED input /\ UNCHANGED decoderVars /\ UNCHANGED asyncVars

\* A header line with no space to split on, or with a first word that
\* parseDate rejects: the callback gets the error, and stops the parse.
CbScanBadHeader(i) ==
    /\ cbpc[i] = "scan" /\ cbCanScan(i) /\ cbTurn(i)
    /\ \E l \in RawLines :
         /\ headerClass(l) \in {"nosplit", "baddate"}
         /\ cbError(i, Errorf(cbName(i), cbline[i] + 1,
                IF headerClass(l) = "nosplit" THEN ErrPayeeLine ELSE ErrDate))
    /\ cbline' = [cbline EXCEPT ![i] = @ + 1]
    /\ UNCHANGED <<cbeof, blocks, tlist, cbret, appendTmp, cbIncludes, unreadable>>
    /\ UNCHANGED chanVars /\ UNCHANGED balVars /\ UNCHANGED input /\ UNCHANGED decoderVars /\ UNCHANGED deliveryVars

\* `case "account": lp.skipAccount()`.
CbScanAccount(i) ==
    /\ cbpc[i] = "scan" /\ cbCanScan(i) /\ cbTurn(i)
    /\ \E l \in RawLines : headerClass(l) = "account"
    /\ \E k \in 0..(cbFileLines(i) - cbline[i] - 1) :
         \/ /\ cbline[i] + 1 + k < cbFileLines(i)
            /\ cbline' = [cbline EXCEPT ![i] = @ + 1 + k + 1]
            /\ UNCHANGED cbeof
         \/ /\ cbline' = [cbline EXCEPT ![i] = @ + 1 + k]
            /\ cbeof' = [cbeof EXCEPT ![i] = TRUE]
    /\ UNCHANGED <<cbpc, blocks, tlist, cbret, appendTmp, cbarg, cbIncludes, unreadable>>
    /\ UNCHANGED chanVars /\ UNCHANGED balVars /\ UNCHANGED input /\ UNCHANGED decoderVars /\ UNCHANGED asyncVars

\* parser.include with a pattern that matches no file: the callback gets the
\* error and include returns true whatever the callback answered.
CbIncludeNotFound(i) ==
    /\ cbpc[i] = "scan" /\ cbCanScan(i) /\ cbTurn(i)
    /\ \E l \in RawLines : headerClass(l) = "include" /\ l.matches = 0
    /\ cbError(i, IncludeErrorf(cbName(i), cbline[i] + 1))
    /\ cbret' = [cbret EXCEPT ![i] = TRUE]
    /\ cbline' = [cbline EXCEPT ![i] = @ + 1]
    /\ UNCHANGED <<cbeof, blocks, tlist, appendTmp, cbIncludes, unreadable>>
    /\ UNCHANGED chanVars /\ UNCHANGED balVars /\ UNCHANGED input /\ UNCHANGED decoderVars /\ UNCHANGED deliveryVars

\* parser.include with n matches: one goroutine per path opens its file (the
\* error of os.Open is dropped) and calls parseLedger; the includer waits.
CbIncludeStart(i) ==
    /\ i = 0 /\ cbIncludes < MaxIncludes
    /\ cbpc[i] = "scan" /\ cbCanScan(i)
    /\ \E l \in RawLines :
         /\ headerClass(l) = "include" /\ l.matches >= 1
         /\ \E failed \in SUBSET (1..l.matches) :
              /\ cbpc' = [k \in Files |-> IF k = i THEN "wait"
                                          ELSE IF k <= l.matches THEN "scan"
                                          ELSE "idle"]
              /\ unreadable' = [k \in Files |-> k \in failed]
    /\ cbline' = [k \in Files |-> IF k = i THEN cbline[i] + 1 ELSE 0]
    /\ cbeof' = [k \in Files |-> IF k = i THEN cbeof[i] ELSE FALSE]
    /\ blocks' = [k \in Files |-> IF k = i THEN blocks[i] ELSE <<>>]
    /\ tlist' = [k \in Files |-> IF k = i THEN tlist[i] ELSE <<>>]
    /\ cbret' = [k \in Files |-> FALSE]
    /\ cbIncludes' = cbIncludes + 1
    /\ UNCHANGED <<appendTmp, cbarg>>
    /\ UNCHANGED chanVars /\ UNCHANGED balVars /\ UNCHANGED input /\ UNCHANGED decoderVars /\ UNCHANGED asyncVars

\* wg.Wait() returns: every goroutine of the include is done.  include returns
\* its stop flag, and parseLedger returns at once when it is set.
CbIncludeJoin(i) ==
    /\ i = 0
    /\ cbpc[i] = "wait"
    /\ \A k \in Files \ {i} : cbpc[k] \in {"idle", "done"}
    /\ LET stop == \E k \in Files \ {i} : cbpc[k] = "done" /\ cbret[k]
       IN /\ cbpc' = [k \in Files |-> IF k # i THEN "idle"
                                      ELSE IF stop THEN "done" ELSE "scan"]
          /\ cbret' = [k \in Files |-> k = i /\ stop]
    /\ cbline' = [k \in Files |-> IF k = i THEN cbline[i] ELSE 0]
    /\ cbeof' = [k \in Files |-> k = i /\ cbeof[i]]
    /\ tlist' = [k \in Files |-> IF k = i THEN tlist[i] ELSE <<>>]
    /\ unreadable' = [k \in Files |-> FALSE]
    /\ UNCHANGED <<blocks, appendTmp, cbarg, cbIncludes>>
    /\ UNCHANGED chanVars /\ UNCHANGED balVars /\ UNCHANGED input /\ UNCHANGED decoderVars /\ UNCHANGED asyncVars

\* A header whose date parses: parseBlock collects the lines up to and
\* including an empty line, or up to the end of input.
CbParseBlock(i) ==
    /\ cbpc[i] = "scan" /\ cbCanScan(i) /\ cbTurn(i)
    /\ \E l \in RawLines : headerClass(l) = "header"
    /\ \E body \in bodiesUpTo(Min(cbFileLines(i) - cbline[i] - 1, MaxLines)) :
         /\ \/ /\ cbline[i] + 1 + Len(body) < cbFileLines(i)
               /\ cbline' = [cbline EXCEPT ![i] = @ + 1 + Len(body) + 1]
               /\ UNCHANGED cbeof
            \/ /\ cbline' = [cbline EXCEPT ![i] = @ + 1 + Len(body)]
               /\ cbeof' = [cbeof EXCEPT ![i] = TRUE]
         /\ blocks' = [blocks EXCEPT ![i] =
                Append(@, [payeeString |-> payeeAt(cbName(i), cbline[i] + 1),
                           filename |-> cbName(i), lineNum |-> cbline'[i],
                           lines |-> body])]
    /\ UNCHANGED <<cbpc, tlist, cbret, appendTmp, cbarg, cbIncludes, unreadable>>
    /\ UNCHANGED chanVars /\ UNCHANGED balVars /\ UNCHANGED input /\ UNCHANGED decoderVars /\ UNCHANGED asyncVars

\* The end of `for lp.scanner.Scan()`.
CbScanEOF(i) ==
    /\ cbpc[i] = "scan" /\ cbTurn(i)
    /\ cbpc' = [cbpc EXCEPT ![i] = "blocks"]
    /\ cbeof' = [cbeof EXCEPT ![i] = TRUE]
    /\ UNCHANGED <<cbline, blocks, tlist, cbret, appendTmp, cbarg, cbIncludes, unreadable>>
    /\ UNCHANGED chanVars /\ UNCHANGED balVars /\ UNCHANGED input /\ UNCHANGED decoderVars /\ UNCHANGED asyncVars

\* `for _, block := range blocks`: block.parseTransaction on the next block;
\* an error goes to the callback, a transaction is appended to tlist.
CbParseTransaction(i) ==
    /\ cbpc[i] = "blocks" /\ cbTurn(i)
    /\ blocks[i] # <<>>
    /\ LET b == Head(blocks[i])
       IN \E order \in MapOrders(blockPostings(b.lines)) :
            LET r == IsBalanced(blockPostings(b.lines), order)
            IN IF r.err # NoErr
               THEN /\ cbError(i, Errorf(b.filename, b.lineNum, r.err))
                    /\ UNCHANGED tlist
               ELSE /\ tlist' = [tlist EXCEPT ![i] =
                           Append(@, [Payee |-> b.payeeString,
                                      AccountChanges |-> r.ac])]
                    /\ produced' = record(txResult(b.payeeString, r.ac))
                    /\ UNCHANGED <<cbpc, cbarg>>
    /\ blocks' = [blocks EXCEPT ![i] = Tail(@)]
    /\ UNCHANGED <<cbline, cbeof, cbret, appendTmp, cbIncludes, unreadable>>
    /\ UNCHANGED chanVars /\ UNCHANGED balVars /\ UNCHANGED input /\ UNCHANGED decoderVars /\ UNCHANGED deliveryVars

\* The callback of ParseLedger / ParseLedgerFile is called with an error:
\* `err = e; stop = true`, and the calling parseLedger returns true.
CbCallbackError(i) ==
    /\ entry # "ParseLedgerAsync"
    /\ cbpc[i] = "callback"
    /\ namedErr' = cbarg[i][1]
    /\ cbarg' = [cbarg EXCEPT ![i] = Nil]
    /\ cbpc' = [cbpc EXCEPT ![i] = "done"]
    /\ cbret' = [cbret EXCEPT ![i] = TRUE]
    /\ UNCHANGED <<entry, cpc, generalLedger, retList, retErr, cancelled>>
    /\ UNCHANGED <<cbline, cbeof, blocks, tlist, appendTmp, cbIncludes, unreadable>>
    /\ UNCHANGED prodVars /\ UNCHANGED balVars /\ UNCHANGED input /\ UNCHANGED decoderVars /\ UNCHANGED asyncVars

\* `callback(tlist, nil)` of ParseLedgerFile: the append runs under mu.
CbAppendLocked(i) ==
    /\ entry = "ParseLedgerFile"
    /\ cbpc[i] = "blocks"
    /\ blocks[i] = <<>>
    /\ generalLedger' = generalLedger \o tlist[i]
    /\ cbpc' = [cbpc EXCEPT ![i] = "done"]
    /\ UNCHANGED <<entry, cpc, namedErr, retList, retErr, cancelled>>
    /\ UNCHANGED <<cbline, cbeof, blocks, tlist, cbret, appendTmp, cbarg, cbIncludes, unreadable>>
    /\ UNCHANGED prodVars /\ UNCHANGED balVars /\ UNCHANGED input /\ UNCHANGED decoderVars /\ UNCHANGED asyncVars

\* `callback(tlist, nil)` of ParseLedger: `generalLedger = append(generalLedger,
\* t...)` with no lock; the slice is read ...
CbAppendRead(i) ==
    /\ entry = "ParseLedger"
    /\ cbpc[i] = "blocks"
    /\ blocks[i] = <<>>
    /\ appendTmp' = [appendTmp EXCEPT ![i] = Ptr(generalLedger)]
    /\ cbpc' = [cbpc EXCEPT ![i] = "append"]
    /\ UNCHANGED <<cbline, cbeof, blocks, tlist, cbret, cbarg, cbIncludes, unreadable>>
    /\ UNCHANGED chanVars /\ UNCHANGED balVars /\ UNCHANGED input /\ UNCHANGED decoderVars /\ UNCHANGED asyncVars

\* ... and the extended slice is written back.
CbAppendWrite(i) ==
    /\ cbpc[i] = "append"
    /\ generalLedger' = appendTmp[i][1] \o tlist[i]
    /\ appendTmp' = [appendTmp EXCEPT ![i] = Nil]
    /\ cbpc' = [cbpc EXCEPT ![i] = "done"]
    /\ UNCHANGED <<entry, cpc, namedErr, retList, retErr, cancelled>>
    /\ UNCHANGED <<cbline, cbeof, blocks, tlist, cbret, cbarg, cbIncludes, unreadable>>
    /\ UNCHANGED prodVars /\ UNCHANGED balVars /\ UNCHANGED input /\ UNCHANGED decoderVars /\ UNCHANGED asyncVars

\* parseLedger has returned to the entry point: the bare `return`.
CbReturn ==
    /\ cpc = "call"
    /\ cbpc[0] = "done"
    /\ cpc' = "returned"
    /\ retList' = generalLedger
    /\ retErr' = namedErr
    /\ UNCHANGED <<entry, generalLedger, namedErr, cancelled>>
    /\ UNCHANGED prodVars /\ UNCHANGED balVars /\ UNCHANGED input /\ UNCHANGED decoderVars /\ UNCHANGED cbVars /\ UNCHANGED asyncVars

NextCb ==
    \/ CbOpenFails
    \/ CbStart
    \/ CbReturn
    \/ \E i \in Files : CbScanSkip(i)
    \/ \E i \in Files : CbScanBadHeader(i)
    \/ \E i \in Files : CbScanAccount(i)
    \/ \E i \in Files : CbIncludeNotFound(i)
    \/ \E i \in Files : CbIncludeStart(i)
    \/ \E i \in Files : CbIncludeJoin(i)
    \/ \E i \in Files : CbParseBlock(i)
    \/ \E i \in Files : CbScanEOF(i)
    \/ \E i \in Files : CbParseTransaction(i)
    \/ \E i \in Files : CbCallbackError(i)
    \/ \E i \in Files : CbAppendLocked(i)
    \/ \E i \in Files : CbAppendRead(i)
    \/ \E i \in Files : CbAppendWrite(i)

InitCb ==
    /\ BalInit
    /\ \E e \in {"ParseLedger", "ParseLedgerFile"} : chanInit(e, "start")
    /\ cbInit
    /\ asyncInit
    /\ decoderInit

SpecCb == InitCb /\ [][NextCb]_vars

\* ------------------------------- ParseLedgerAsync of the callback-based driver
\* The callback of ParseLedgerAsync is called with an error: `e <- err`, and
\* stop stays false, so the calling parseLedger goes on where it was: in the
\* scan loop, or in the loop over the blocks (entered at the end of input);
\* after the error of an include without a match it returns true.
CbAsyncSendError(i) ==
    /\ entry = "ParseLedgerAsync"
    /\ cbpc[i] = "callback"
    /\ reported' = deliver(reported, cbarg[i][1])
    /\ cbarg' = [cbarg EXCEPT ![i] = Nil]
    /\ cbpc' = [cbpc EXCEPT ![i] = IF cbret[i] THEN "done"
                                    ELSE IF cbeof[i] THEN "blocks" ELSE "scan"]
    /\ UNCHANGED <<delivered, cClosed, eClosed, produced>>
    /\ UNCHANGED <<cbline, cbeof, blocks, tlist, cbret, appendTmp, cbIncludes, unreadable>>
    /\ UNCHANGED chanVars /\ UNCHANGED balVars /\ UNCHANGED input /\ UNCHANGED decoderVars

\* `callback(tlist, nil)`: `for _, t := range tlist { c <- t }`, one send.
CbAsyncSendTransaction(i) ==
    /\ entry = "ParseLedgerAsync"
    /\ cbpc[i] = "blocks"
    /\ blocks[i] = <<>>
    /\ tlist[i] # <<>>
    /\ delivered' = deliver(delivered, Head(tlist[i]))
    /\ tlist' = [tlist EXCEPT ![i] = Tail(@)]
    /\ UNCHANGED <<reported, cClosed, eClosed, produced>>
    /\ UNCHANGED <<cbpc, cbline, cbeof, blocks, cbret, appendTmp, cbarg, cbIncludes, unreadable>>
    /\ UNCHANGED chanVars /\ UNCHANGED balVars /\ UNCHANGED input /\ UNCHANGED decoderVars

\* The loop over tlist is over: the callback and parseLedger return false.
CbAsyncSent(i) ==
    /\ entry = "ParseLedgerAsync"
    /\ cbpc[i] = "blocks"
    /\ blocks[i] = <<>>
    /\ tlist[i] = <<>>
    /\ cbpc' = [cbpc EXCEPT ![i] = "done"]
    /\ UNCHANGED <<cbline, cbeof, blocks, tlist, cbret, appendTmp, cbarg, cbIncludes, unreadable>>
    /\ UNCHANGED chanVars /\ UNCHANGED balVars /\ UNCHANGED input /\ UNCHANGED decoderVars /\ UNCHANGED asyncVars

\* parseLedger has returned: `e <- nil; close(c); close(e)`.
CbAsyncClose ==
    /\ entry = "ParseLedgerAsync"
    /\ cpc = "call"
    /\ cbpc[0] = "done"
    /\ reported' = Append(reported, NoErr)
    /\ cClosed' = TRUE
    /\ eClosed' = TRUE
    /\ cpc' = "returned"
    /\ UNCHANGED <<entry, generalLedger, namedErr, retList, retErr, cancelled>>
    /\ UNCHANGED <<delivered, produced>>
    /\ UNCHANGED prodVars /\ UNCHANGED balVars /\ UNCHANGED input /\ UNCHANGED decoderVars /\ UNCHANGED cbVars

NextCbAsync ==
    \/ CbStart
    \/ CbAsyncClose
    \/ \E i \in Files : CbScanSkip(i)
    \/ \E i \in Files : CbScanBadHeader(i)
    \/ \E i \in Files : CbScanAccount(i)
    \/ \E i \in Files : CbIncludeNotFound(i)
    \/ \E i \in Files : CbIncludeStart(i)
    \/ \E i \in Files : CbIncludeJoin(i)
    \/ \E i \in Files : CbParseBlock(i)
    \/ \E i \in Files : CbScanEOF(i)
    \/ \E i \in Files : CbParseTransaction(i)
    \/ \E i \in Files : CbAsyncSendError(i)
    \/ \E i \in Files : CbAsyncSendTransaction(i)
    \/ \E i \in Files : CbAsyncSent(i)

SpecCbAsync == InitAsync /\ [][NextCbAsync]_vars /\ WF_vars(NextCbAsync)

\* ------------------------------------------------ the QIF decoder (ledger/qif)
\* The lines of a QIF text: a `!Type:` header, a date line (D), another field
\* line (T), the end marker (^), an empty line.
QifTypes == {"Cash", "Bank"}
QifLines ==
    [kind : {"type"}, value : QifTypes]
    \cup [kind : {"D", "T", "^", "empty"}, value : {""}]
QifInputs == UNION {[1..n -> QifLines] : n \in 0..MaxQifLines}
EOF == "EOF"
ErrUnexpectedEOF == "unexpected EOF while reading transaction"

\* Decoder.readLine after pos lines of the text ls: bufio's ReadString gives
\* the next line, together with io.EOF when the text ends before a newline;
\* readLine hands both on unless the line is empty.
readLine(ls, nl, pos) ==
    IF pos >= Len(ls) THEN [line |-> Nil, err |-> EOF]
    ELSE IF pos + 1 = Len(ls) /\ ~nl
         THEN (IF ls[pos + 1].kind = "empty" THEN [line |-> Nil, err |-> EOF]
               ELSE [line |-> Ptr(ls[pos + 1]), err |-> EOF])
         ELSE [line |-> Ptr(ls[pos + 1]), err |-> NoErr]

\* assignField on the transaction t and a line that stands at position n:
\* the date is named by the position of its line.
assignField(t, l, n) == IF l.kind = "D" THEN [t EXCEPT !.Date = n] ELSE t

\* One turn of the loop of Decoder.Decode.
Decode ==
    /\ qifpc = "Decode"
    /\ LET rl == readLine(qifInput, qifNewline, qifPos)
           n == Min(qifPos + 1, Len(qifInput))
       IN /\ qifPos' = n
          /\ IF rl.err = EOF
             THEN /\ qifpc' = "returned"
                  /\ qifRet' = transactions
                  /\ qifErr' = NoErr
                  /\ UNCHANGED <<currentType, qifTx>>
             ELSE /\ UNCHANGED <<qifRet, qifErr>>
                  /\ currentType' = IF rl.line[1].kind = "type"
                                    THEN rl.line[1].value ELSE currentType
                  /\ IF rl.line[1].kind = "D"
                     THEN /\ qifpc' = "decodeTransaction"
                          /\ qifTx' = Ptr(assignField(
                                 [Type |-> currentType, Date |-> 0], rl.line[1], n))
                     ELSE UNCHANGED <<qifpc, qifTx>>
    /\ UNCHANGED <<qifInput, qifNewline, transactions>>
    /\ UNCHANGED chanVars /\ UNCHANGED balVars /\ UNCHANGED cbVars /\ UNCHANGED asyncVars
    /\ UNCHANGED iifVars

\* One turn of the loop of Decoder.decodeTransaction; its error makes Decode
\* return nil and that error.
decodeTransaction ==
    /\ qifpc = "decodeTransaction"
    /\ LET rl == readLine(qifInput, qifNewline, qifPos)
           n == Min(qifPos + 1, Len(qifInput))
       IN /\ qifPos' = n
          /\ IF rl.err # NoErr
             THEN /\ qifpc' = "returned"
                  /\ qifRet' = <<>>
                  /\ qifErr' = ErrUnexpectedEOF
                  /\ UNCHANGED <<transactions, qifTx>>
             ELSE /\ UNCHANGED <<qifRet, qifErr>>
                  /\ IF rl.line[1].kind = "^"
                     THEN /\ transactions' = Append(transactions, qifTx[1])
                          /\ qifTx' = Nil
                          /\ qifpc' = "Decode"
                     ELSE /\ qifTx' = Ptr(assignField(qifTx[1], rl.line[1], n))
                          /\ UNCHANGED <<transactions, qifpc>>
    /\ UNCHANGED <<qifInput, qifNewline, currentType>>
    /\ UNCHANGED chanVars /\ UNCHANGED balVars /\ UNCHANGED cbVars /\ UNCHANGED asyncVars
    /\ UNCHANGED iifVars

NextQif == Decode \/ decodeTransaction

\* ParseQIF on every text of up to MaxQifLines lines.  A text whose last line
\* has no newline has a last line, and that line is not empty.
InitQif ==
    /\ BalInit /\ chanInit("", "idle") /\ cbInit /\ asyncInit
    /\ \E ls \in QifInputs, nl \in BOOLEAN :
          /\ ~nl => (ls # <<>> /\ ls[Len(ls)].kind # "empty")
          /\ qifInit(ls, nl, "Decode")
    /\ iifInit(<<>>, "idle")

SpecQif == InitQif /\ [][NextQif]_vars

\* ------------------------------------------------ the IIF decoder (ledger/iif)
\* The rows of an IIF text: a header row (`!TYPE ...`) or a record row.
RecordTypes == {"TRNS", "SPL"}
IifRows == [IsHeader : BOOLEAN, Type : RecordTypes]
IifInputs == UNION {[1..n -> IifRows] : n \in 0..MaxIifRows}
ErrMismatchedRecords == "iif: row does not match expected header"
ErrEmptyHeader == "iif: empty header"

\* Decoder.Done (d.err is io.EOF once the rows are used up), and the row the
\* fields IsHeader and Type of the decoder describe.
iifDone == iifPos > Len(iifInput)
iifRow == iifInput[iifPos]

\* Block.Load returns e to File.Load, and File.Load to Decode: an error ends
\* the decoding, otherwise the block is appended to f.Blocks.
blockReturns(e) ==
    /\ IF e # NoErr
       THEN iifpc' = "returned" /\ iifErr' = e /\ UNCHANGED fileBlocks
       ELSE /\ iifpc' = "File.Load"
            /\ fileBlocks' = Append(fileBlocks,
                                    [Headers |-> bHeaders, Records |-> bRecords])
            /\ UNCHANGED iifErr

\* File.Load: the test of its loop; b := Block{} and the call of b.Load.
FileLoad ==
    /\ iifpc = "File.Load"
    /\ IF iifDone
       THEN iifpc' = "returned" /\ UNCHANGED <<bHeaders, bRecords>>
       ELSE iifpc' = "headers" /\ bHeaders' = <<>> /\ bRecords' = <<>>
    /\ UNCHANGED <<iifInput, iifPos, group, hIdx, fileBlocks, iifErr>>
    /\ UNCHANGED chanVars /\ UNCHANGED balVars /\ UNCHANGED cbVars /\ UNCHANGED asyncVars
    /\ UNCHANGED qifVars

\* Block.Load, "Parse Headers": one turn of the loop.
LoadHeaders ==
    /\ iifpc = "headers"
    /\ IF ~iifDone /\ iifRow.IsHeader
       THEN /\ bHeaders' = Append(bHeaders, [Type |-> iifRow.Type])
            /\ iifPos' = iifPos + 1
            /\ UNCHANGED iifpc
       ELSE iifpc' = "records" /\ UNCHANGED <<bHeaders, iifPos>>
    /\ UNCHANGED <<iifInput, bRecords, group, hIdx, fileBlocks, iifErr>>
    /\ UNCHANGED chanVars /\ UNCHANGED balVars /\ UNCHANGED cbVars /\ UNCHANGED asyncVars
    /\ UNCHANGED qifVars

\* Block.Load, "Parse Records": the test of the outer loop, r := []Record{}
\* and the test for headers.
LoadRecords ==
    /\ iifpc = "records"
    /\ IF ~iifDone /\ ~iifRow.IsHeader
       THEN /\ group' = <<>>
            /\ IF Len(bHeaders) = 0
               THEN blockReturns(ErrEmptyHeader) /\ UNCHANGED hIdx
               ELSE iifpc' = "range" /\ hIdx' = 1 /\ UNCHANGED <<fileBlocks, iifErr>>
       ELSE blockReturns(NoErr) /\ UNCHANGED <<group, hIdx>>
    /\ UNCHANGED <<iifInput, iifPos, bHeaders, bRecords>>
    /\ UNCHANGED chanVars /\ UNCHANGED balVars /\ UNCHANGED cbVars /\ UNCHANGED asyncVars
    /\ UNCHANGED qifVars

\* Block.Load: `for _, h := range b.Headers`, the two tests at the head of its
\* body, and the append of r to b.Records after the last header.
LoadRange ==
    /\ iifpc = "range"
    /\ IF hIdx > Len(bHeaders)
       THEN /\ bRecords' = Append(bRecords, group)
            /\ iifpc' = "records"
            /\ UNCHANGED <<fileBlocks, iifErr>>
       ELSE /\ UNCHANGED bRecords
            /\ IF iifDone THEN blockReturns(NoErr)
               ELSE IF iifRow.Type # bHeaders[hIdx].Type
                    THEN blockReturns(ErrMismatchedRecords)
                    ELSE iifpc' = "rows" /\ UNCHANGED <<fileBlocks, iifErr>>
    /\ UNCHANGED <<iifInput, iifPos, bHeaders, group, hIdx>>
    /\ UNCHANGED chanVars /\ UNCHANGED balVars /\ UNCHANGED cbVars /\ UNCHANGED asyncVars
    /\ UNCHANGED qifVars

\* Block.Load: one turn of the loop that collects the rows of h's type, and
\* the test `len(r) == 0` after it.  A record is named by the position of its
\* row.
LoadRow ==
    /\ iifpc = "rows"
    /\ IF ~iifDone /\ ~iifRow.IsHeader /\ iifRow.Type = bHeaders[hIdx].Type
       THEN /\ group' = Append(group, [Type |-> iifRow.Type, row |-> iifPos])
            /\ iifPos' = iifPos + 1
            /\ UNCHANGED <<iifpc, hIdx, fileBlocks, iifErr>>
       ELSE /\ UNCHANGED <<group, iifPos>>
            /\ IF Len(group) = 0
               THEN blockReturns(ErrMismatchedRecords) /\ UNCHANGED hIdx
               ELSE iifpc' = "range" /\ hIdx' = hIdx + 1
                    /\ UNCHANGED <<fileBlocks, iifErr>>
    /\ UNCHANGED <<iifInput, bHeaders, bRecords>>
    /\ UNCHANGED chanVars /\ UNCHANGED balVars /\ UNCHANGED cbVars /\ UNCHANGED asyncVars
    /\ UNCHANGED qifVars

NextIif == FileLoad \/ LoadHeaders \/ LoadRecords \/ LoadRange \/ LoadRow

\* NewDecoder(r).Decode() on every text of up to MaxIifRows rows.
InitIif ==
    /\ BalInit /\ chanInit("", "idle") /\ cbInit /\ asyncInit
    /\ qifInit(<<>>, TRUE, "idle")
    /\ \E rs \in IifInputs : iifInit(rs, "File.Load")

SpecIif == InitIif /\ [][NextIif]_vars

\* ------------------------------------------------------------ properties
Done == pc = "done"

\* The postings as they are summed: the amounts the parser read, with the
\* conversions the postings carry after the inference pass.
summed == [i \in DOMAIN tx |-> [tx[i] EXCEPT !.Balance = parsed[i].Balance]]
\* The common-unit total of the transaction (in units of 1/Scale^2).  It is
\* defined when the summation runs, that is with two postings or more.
total == transBal(summed)
Summed == Done /\ Len(parsed) >= 2

distinctCurrencies(ac) == currencyKeys(ac) \ {""}
noExplicitConversion(ac) ==
    \A i \in DOMAIN ac : ac[i].Converted = Nil /\ ac[i].ConversionFactor = Nil

\* Every amount the balancer stores is a whole number of 1/Scale units.
ExactAmounts == Summed => total % Scale = 0

\* C1: every transaction returned by a successful parse sums to zero in the
\* common unit (-Converted, else Balance * ConversionFactor, else Balance),
\* also when its single empty posting carries an explicit @ or @@.
ZeroSumInvariant == (Done /\ trans # Nil) => transBal(trans[1]) = 0

\* C2: a block with fewer than two postings (comment-only lines do not count)
\* yields "need at least two postings" and no Transaction, whatever the
\* amounts, and no posting was touched by inference or adjustment.
MinimumPostings ==
    (Done /\ Len(postingLines(lines)) < 2) =>
        /\ err = ErrNeedAtLeastTwoPostings
        /\ trans = Nil
        /\ tx = parsed
MinimumPostingsWitness ==
    /\ Done /\ via = "block"
    /\ Len(postingLines(lines)) = 1
    /\ Len(lines) = 3
    /\ parsed[1].Balance # 0
    /\ err = ErrNeedAtLeastTwoPostings

\* C3: with a non-zero total T and exactly one zero-amount posting, balancing
\* succeeds, that posting's amount becomes -T and no other amount changes.
SingleEmptyInference ==
    (Summed /\ total # 0 /\ numEmpty(parsed) = 1) =>
        /\ err = NoErr
        /\ trans = Ptr(tx)
        /\ \A i \in DOMAIN parsed :
              IF parsed[i].Balance = 0
              THEN tx[i].Balance * Scale = 0 - total
              ELSE tx[i].Balance = parsed[i].Balance
SingleEmptyInferenceWitness ==
    /\ Summed /\ via = "block"
    /\ total # 0 /\ numEmpty(parsed) = 1
    /\ noExplicitConversion(parsed)
    /\ \E i \in DOMAIN tx : parsed[i].Balance = 0 /\ tx[i].Balance # 0

\* C4: with a non-zero total and two or more zero-amount postings, balancing
\* fails with "more than one account empty" and yields no Transaction.
AmbiguousEmptyRejection ==
    (Summed /\ total # 0 /\ numEmpty(parsed) >= 2) =>
        /\ err = ErrMoreThanOneEmptyAccountInTx
        /\ trans = Nil
AmbiguousEmptyWitness ==
    /\ Summed /\ via = "block"
    /\ total # 0 /\ numEmpty(parsed) = 2 /\ Len(parsed) = 3
    /\ err = ErrMoreThanOneEmptyAccountInTx

\* C5: with a non-zero total and no zero-amount posting, balancing fails with
\* "no empty account to place extra balance" and yields no Transaction.
NoEmptyRejection ==
    (Summed /\ total # 0 /\ numEmpty(parsed) = 0) =>
        /\ err = ErrNoEmptyAccountForExtraBalance
        /\ trans = Nil
NoEmptyWitness ==
    /\ Summed /\ via = "block"
    /\ total # 0 /\ numEmpty(parsed) = 0
    /\ err = ErrNoEmptyAccountForExtraBalance

\* C6: when the total is zero (as written, or once the inferred factor is
\* applied), balancing succeeds and changes no posting's amount, however many
\* postings are empty.
AlreadyBalancedUntouched ==
    (Summed /\ (total = 0 \/ transBal(parsed) = 0)) =>
        /\ err = NoErr
        /\ trans = Ptr(tx)
        /\ \A i \in DOMAIN parsed : tx[i].Balance = parsed[i].Balance
AlreadyBalancedWitness ==
    /\ Summed /\ via = "block"
    /\ total = 0 /\ numEmpty(parsed) = 1 /\ Len(parsed) = 3
    /\ err = NoErr

\* C7: with exactly two currencies and no explicit conversion, the group of
\* the first-seen currency is the base and gets no factor, and every posting
\* of the second-seen currency gets -(sum of the first) / (sum of the second).
TwoCurrencyFirstSeenIsBase ==
    LET first == groupIndices(parsed, CurrencyOrder[1])
        second == groupIndices(parsed, CurrencyOrder[2])
        sumFirst == sumOver(parsed, first)
        sumSecond == sumOver(parsed, second)
    IN (/\ Summed /\ via = "block"
        /\ currencyKeys(parsed) = {CurrencyOrder[1], CurrencyOrder[2]}
        /\ noExplicitConversion(parsed)
        /\ sumSecond # 0
        /\ sumFirst + sumSecond # 0) =>
           /\ \A i \in first : tx[i].ConversionFactor = Nil
           /\ \A i \in second :
                 tx[i].ConversionFactor = Ptr(decimalDiv(0 - sumFirst, sumSecond))

\* C8: IsBalanced on two equal transactions gives identical results: the same
\* error, the same amounts, the same postings carrying the same factor.
Determinism == (pc = "again") => (err2 = err /\ tx2 = tx)

\* C9: with three or more distinct currencies no conversion factor is
\* inferred and the outcome is that of the generic balance check on the
\* postings as parsed ("no empty account" when unbalanced with none empty).
ThreeCurrenciesNoInference ==
    (Summed /\ via = "block" /\ Cardinality(distinctCurrencies(parsed)) >= 3) =>
        /\ \A i \in DOMAIN parsed :
              tx[i].ConversionFactor = parsed[i].ConversionFactor
        /\ [err |-> err, ac |-> tx] = balanceCheck(parsed)
        /\ (transBal(parsed) # 0 /\ numEmpty(parsed) = 0)
              => err = ErrNoEmptyAccountForExtraBalance
ThreeCurrenciesWitness ==
    /\ Summed /\ via = "block"
    /\ Cardinality(distinctCurrencies(parsed)) = 3
    /\ noExplicitConversion(parsed)
    /\ numEmpty(parsed) = 0
    /\ err = ErrNoEmptyAccountForExtraBalance

\* The entry point has returned to its caller.
Returned == cpc = "returned"

\* C10: ParseLedger and ParseLedgerFile return a non-nil error whenever the
\* parse produced an error result (bad header, bad date, unbalanced block,
\* failed include); a nil error means every block parsed.
BatchSurfacesErrors == (Returned /\ producedError) => retErr # NoErr

\* C11: whenever ParseLedger or ParseLedgerFile returns a non-nil error, the
\* transaction list it returns is empty, also when transactions of included
\* files had reached the accumulator before the error.
NoPartialResults == (Returned /\ retErr # NoErr) => retList = <<>>

\* An invocation of the channel-based parseLedger stands before the send of
\* an error it has built itself.
ownError(d) ==
    /\ ppc[d] = "send" /\ after[d] # "fwd"
    /\ pending[d][1].error # Nil

\* C12: the error for a failed block names the source of the invocation (empty
\* for a stream given to ParseLedger) and carries as line the number of
\* physical lines the scanner has consumed when the block's lines end; the
\* error for a failed header carries the header's own line number.
ErrorAttribution ==
    \A d \in Levels :
        ownError(d) =>
            /\ pending[d][1].error[1].line = consumed[d]
            /\ pending[d][1].error[1].source = source[d]
            /\ (d = 0 /\ entry = "ParseLedger") => source[d] = ""

\* What invocation d has put, or is about to put, on its result channel and
\* the reader has not taken yet, oldest first.
outQueue(d) == results[d] \o pending[d]
isNotFound(r) == r.error # Nil /\ r.error[1].cause = ErrNotFound

\* C13: after the "not found" error of an include that matches no file, the
\* invocation emits nothing more, and neither do the invocations that enclose
\* it: on every result channel nothing follows such an error.
IncludeNotFoundAborts ==
    \A d \in Levels : \A k \in 1..Len(outQueue(d)) :
        isNotFound(outQueue(d)[k]) => k = Len(outQueue(d))

\* How often v occurs in the sequence q.
occurrences(q, v) == Cardinality({k \in DOMAIN q : q[k] = v})
\* The goroutines of an include have all returned false, at least two of them,
\* no error was handed to the callback, and the includer has yet to go on.
allIncludedParsed ==
    /\ cbpc[0] = "wait"
    /\ cbpc[1] = "done" /\ cbpc[2] = "done"
    /\ \A k \in Files \ {0} : cbpc[k] \in {"idle", "done"} /\ ~cbret[k]
    /\ namedErr = NoErr

\* C14: when an include matches two or more files that all parse without
\* error, the accumulated list holds every transaction of every matched file
\* exactly once, whatever the interleaving of the sub-parses.
IncludeMergeComplete ==
    allIncludedParsed =>
        \A k \in Files \ {0} : \A n \in DOMAIN tlist[k] :
            occurrences(generalLedger, tlist[k][n])
                = occurrences(tlist[1] \o tlist[2], tlist[k][n])

producedTransactions == {k \in DOMAIN produced : produced[k].error = Nil}
producedErrors == {k \in DOMAIN produced : produced[k].error # Nil}
\* Every result built so far has reached the consumer, each once: the
\* transactions on c, the errors on e.
allDelivered ==
    /\ \A k \in producedTransactions :
         occurrences(delivered, produced[k].Transaction[1])
             = occurrences(produced, produced[k])
    /\ \A k \in producedErrors :
         occurrences(reported, produced[k].error[1])
             = occurrences(produced, produced[k])
\* C16 (streaming completion): with a consumer that keeps receiving from both
\* channels of ParseLedgerAsync, eventually both channels are closed, and by
\* then every transaction that was parsed has been delivered exactly once on
\* the transaction channel and every block error on the error channel.
StreamingCompletion == <>(cClosed /\ eClosed /\ allDelivered)
StreamingCompletionWitness ==
    /\ cClosed /\ eClosed
    /\ Len(delivered) >= 1 /\ Len(reported) >= 1
    /\ source[1] # ""
    /\ allDelivered

terminated(d) == ppc[d] \in {"idle", "done"}
\* C17 (cancellation liveness): once ParseLedger / ParseLedgerFile has
\* returned (it stops reading at the first error result and cancels the
\* context), every parseLedger goroutine eventually terminates.
CancellationLiveness == (cpc = "returned") ~> (\A d \in Levels : terminated(d))

\* C18 (a bad header skips the block): while the scanner stands in a block
\* whose header was rejected, no line of that block makes parseLedger build a
\* further result.
BadHeaderSkipsBlock ==
    [][\A d \in Levels : ~(rejected[d] /\ ppc[d] = "loop" /\ ppc'[d] = "send")]_vars

malformedLines == {i \in DOMAIN lines : parsePostingError(lines[i]) # NoErr}
\* C19 (a malformed posting aborts the transaction): when parsePosting
\* returns an error for a line of the block, parseTransaction returns an
\* error and no transaction.
MalformedPostingAborts ==
    (Done /\ malformedLines # {}) => (err # NoErr /\ trans = Nil)

\* C20 (an unreadable included file is fatal): once the parse of an included
\* file that os.Open could not open has ended, it has told its includer to
\* stop and the caller's error is set.
UnreadableIncludeFatal ==
    \A k \in Files \ {0} :
        (unreadable[k] /\ cbpc[k] = "done") => (cbret[k] /\ namedErr # NoErr)

\* C21 (an account declaration ends at the next blank line): skipAccount
\* never reads on past a line that is blank once white space is trimmed.
AccountSkipBounded == \A d \in Levels : ~overrun[d]

\* C22 (termination): every parse invocation reaches the end of its input or
\* aborts, also when an include pattern matches the including file.  The
\* parse of a file is the same each time it starts, so it meets the same
\* include directive again: termination requires that no invocation is
\* started on the file its includer is reading.
NoIncludeReentry ==
    \A d \in Levels \ {0} : ppc[d] # "idle" => source[d] # source[d - 1]

explicitConversion(acc) == acc.ConversionFactor # Nil \/ acc.Converted # Nil
\* C23 (inference never overwrites): IsBalanced leaves every Converted value
\* and every ConversionFactor that was set before the call as it was; a
\* factor appears only on postings that had neither.
InferenceNeverOverwrites ==
    (Done /\ via = "block") =>
        \A i \in DOMAIN parsed :
            /\ tx[i].Converted = parsed[i].Converted
            /\ explicitConversion(parsed[i]) =>
                   tx[i].ConversionFactor = parsed[i].ConversionFactor
InferenceNeverOverwritesWitness ==
    /\ Done /\ via = "block" /\ Len(parsed) = 3
    /\ \E i, j, k \in DOMAIN parsed :
          /\ parsed[i].ConversionFactor # Nil
          /\ parsed[i].Currency = parsed[j].Currency
          /\ ~explicitConversion(parsed[j])
          /\ tx[j].ConversionFactor # Nil
          /\ tx[i].ConversionFactor = parsed[i].ConversionFactor
          /\ parsed[k].Currency # parsed[i].Currency

\* The block gave exactly two currency groups, and every posting is in one.
twoGroups == Summed /\ via = "block" /\ reachesMapRange(parsed)
hasExplicit(ac, k) == \E i \in groupIndices(ac, k) : explicitConversion(ac[i])
noFactorAssigned ==
    \A i \in DOMAIN parsed : tx[i].ConversionFactor = parsed[i].ConversionFactor
\* C24 (inference is skipped when both sides are explicit): when each of the
\* two currency groups holds a posting with an explicit conversion (@ or @@),
\* IsBalanced assigns no conversion factor.
BothExplicitSkipsInference ==
    (twoGroups /\ \A k \in currencyKeys(parsed) : hasExplicit(parsed, k))
        => noFactorAssigned

\* C25 (base group selection): when exactly one of the two currency groups
\* holds a posting with an explicit conversion, that group is the base: none
\* of its postings is assigned the inferred factor.
ExplicitGroupIsBase ==
    twoGroups =>
        \A k \in currencyKeys(parsed) :
            (/\ hasExplicit(parsed, k)
             /\ \A o \in currencyKeys(parsed) \ {k} : ~hasExplicit(parsed, o))
            => \A i \in groupIndices(parsed, k) :
                   tx[i].ConversionFactor = parsed[i].ConversionFactor

\* C26 (postings without a currency do not take part in grouping): a block
\* whose postings with a currency fall into exactly two currencies, with
\* group sums that are not zero and do not cancel, gets a factor inferred
\* also when it holds a posting without a currency.
EmptyCurrencyIgnoredInGrouping ==
    LET first == groupIndices(parsed, CurrencyOrder[1])
        second == groupIndices(parsed, CurrencyOrder[2])
    IN (/\ Summed /\ via = "block"
        /\ distinctCurrencies(parsed) = {CurrencyOrder[1], CurrencyOrder[2]}
        /\ "" \in currencyKeys(parsed)
        /\ noExplicitConversion(parsed)
        /\ sumOver(parsed, first) # 0
        /\ sumOver(parsed, second) # 0
        /\ sumOver(parsed, first) + sumOver(parsed, second) # 0)
       => \E i \in first \cup second : tx[i].ConversionFactor # Nil

\* C27 (two-currency transactions balance without an empty posting): with
\* exactly two currency groups, no explicit conversion, no zero amount and a
\* non-zero sum in the group that is not the base, IsBalanced returns nil.
TwoCurrencyBalances ==
    (/\ twoGroups
     /\ noExplicitConversion(parsed)
     /\ numEmpty(parsed) = 0
     /\ sumOver(parsed, groupIndices(parsed, curOrder[2])) # 0)
    => (err = NoErr /\ trans # Nil)

\* C28 (line counter): at every point of a parse invocation lp.line is the
\* number of physical lines its scanner has read since the start of the
\* stream; it is never reset.
LineCounterExact == \A d \in Levels : ppc[d] # "idle" => lnum[d] = consumed[d]

\* C29 (block line number): the line number recorded for a block is that of
\* the block's first line (its header, or the line after it when only the
\* lines kept in block.lines are counted), and the file name recorded is
\* that of the file the block was read from.
BlockLineNumber ==
    \A i \in Files : \A n \in DOMAIN blocks[i] :
        /\ blocks[i][n].filename = cbName(i)
        /\ blocks[i][n].lineNum \in {blocks[i][n].payeeString.line,
                                     blocks[i][n].payeeString.line + 1}

\* C30 (comment attachment): the comments of a transaction are the
\* comment-only lines between the end of the preceding block and the end of
\* its own block, in textual order; no comment of an earlier block, failed or
\* skipped, is among them.
CommentAttachment == \A d \in Levels : txComments[d] = ownComments[d]

\* C31 (exclusive conversion forms): no posting the posting parser filled
\* in, whether its block went on to fail or to succeed, has both Converted
\* (`@@`) and ConversionFactor (`@`) set.
bothForms(acc) == acc.Converted # Nil /\ acc.ConversionFactor # Nil
ExclusiveConversionForms ==
    \A d \in Levels :
        /\ \A i \in DOMAIN slots[d] : ~bothForms(slots[d][i])
        /\ (pending[d] # Nil /\ pending[d][1].Transaction # Nil) =>
              \A i \in DOMAIN pending[d][1].Transaction[1].AccountChanges :
                  ~bothForms(pending[d][1].Transaction[1].AccountChanges[i])

\* C32 (include join before close): no invocation of parseLedger has
\* returned, and ParseLedgerAsync has closed neither channel, while a
\* sub-parse started by an include directive still runs; and once a channel
\* is closed nothing more is sent on it.
running(d) == ppc[d] \notin {"idle", "done"}
subParsesJoined ==
    /\ \A d \in Levels \ {MaxDepth} : closed[d] => ~running(d + 1)
    /\ (cClosed \/ eClosed) => \A d \in Levels : ~running(d)
noSendAfterClose ==
    /\ \A d \in Levels : closed[d] => Len(results'[d]) <= Len(results[d])
    /\ cClosed => delivered' = delivered
    /\ eClosed => reported' = reported
IncludeJoinBeforeClose == []subParsesJoined /\ [][noSendAfterClose]_vars
IncludeJoinBeforeCloseWitness ==
    /\ cClosed /\ eClosed
    /\ closed[0] /\ closed[1] /\ ppc[1] = "done"
    /\ \E k \in DOMAIN reported : reported[k].source # ""

\* C33 (no unsynchronised shared state): no two goroutines of one include
\* stand at the same time at an access to the caller's transaction list
\* outside the mutex, or at the assignment to the caller's error variable.
atLedgerAppend(i) == cbpc[i] = "append"
atErrAssign(i) == cbpc[i] = "callback" /\ entry # "ParseLedgerAsync"
NoUnsynchronisedSharedState ==
    \A i, j \in Files :
        i # j => /\ ~(atLedgerAppend(i) /\ atLedgerAppend(j))
                 /\ ~(atErrAssign(i) /\ atErrAssign(j))

\* C34 (block independence): the result built for a block is the one its
\* own lines give; what an earlier block of the stream left behind, failed
\* or not, changes neither the postings nor the error.
BlockIndependence == \A d \in Levels : alone[d] # Nil => pending[d] = alone[d]

\* C35 (IsBalanced is atomic on failure): when IsBalanced returns an error,
\* every posting has the amount, the converted amount and the conversion
\* factor it had before the call.
AtomicOnFailure == (Done /\ via = "block" /\ err # NoErr) => tx = parsed

\* C36 (IsBalanced is idempotent on success): a second call on a transaction
\* for which the first call returned nil returns nil and leaves every
\* posting as the first call left it.
IdempotentOnSuccess == (pc = "twice") => (err2 = NoErr /\ tx2 = tx)

\* C37 (the error channel carries only errors): every value received from
\* the error channel of ParseLedgerAsync is a non-nil error, so an input
\* whose blocks all parse delivers nothing on it.
ErrorChannelOnlyErrors == \A k \in DOMAIN reported : reported[k] # NoErr

\* C38 (QIF record framing): a text made only of complete records (a D line,
\* field lines, a ^ line), each optionally preceded by !Type: headers, gives
\* no error and one transaction per record, in order, tagged with the most
\* recent !Type: value, whether or not its last line ends with a newline; a
\* text that ends inside a record gives an error and no transactions.
RECURSIVE framed(_, _)
framed(ls, inRecord) ==
    IF ls = <<>> THEN ~inRecord
    ELSE IF inRecord
         THEN \/ Head(ls).kind = "T" /\ framed(Tail(ls), TRUE)
              \/ Head(ls).kind = "^" /\ framed(Tail(ls), FALSE)
         ELSE \/ Head(ls).kind = "type" /\ framed(Tail(ls), FALSE)
              \/ Head(ls).kind = "D" /\ framed(Tail(ls), TRUE)
RECURSIVE endsInRecord(_, _)
endsInRecord(ls, inRecord) ==
    IF ls = <<>> THEN inRecord
    ELSE IF inRecord THEN endsInRecord(Tail(ls), Head(ls).kind # "^")
         ELSE endsInRecord(Tail(ls), Head(ls).kind = "D")
lastOfKind(ls, j, k) ==
    LET S == {i \in 1..j : ls[i].kind = k}
    IN IF S = {} THEN 0 ELSE CHOOSE i \in S : \A m \in S : m <= i
recordEnds(ls) ==
    SelectSeq([i \in 1..Len(ls) |-> i], LAMBDA i : ls[i].kind = "^")
expectedTransactions(ls) ==
    [k \in 1..Len(recordEnds(ls)) |->
        LET t == lastOfKind(ls, recordEnds(ls)[k], "type")
        IN [Type |-> IF t = 0 THEN "" ELSE ls[t].value,
            Date |-> lastOfKind(ls, recordEnds(ls)[k], "D")]]
QifRecordFraming ==
    (qifpc = "returned") =>
        /\ framed(qifInput, FALSE) =>
              (qifErr = NoErr /\ qifRet = expectedTransactions(qifInput))
        /\ endsInRecord(qifInput, FALSE) => (qifErr # NoErr /\ qifRet = <<>>)

\* C39 (IIF decoding loses no rows): Decode returns an error, or every record
\* row appears in exactly one record group of exactly one block, in input
\* order, and every group holds at least one record for every header of its
\* block, in header order; a record row that precedes any header gives
\* ErrEmptyHeader, and a row of a type none of the headers before it declares
\* gives ErrMismatchedRecords.
RECURSIVE flatten(_)
flatten(ss) == IF ss = <<>> THEN <<>> ELSE Head(ss) \o flatten(Tail(ss))
groupsOf(bs) == flatten([k \in 1..Len(bs) |-> bs[k].Records])
rowsOf(bs) ==
    LET recs == flatten(groupsOf(bs)) IN [k \in 1..Len(recs) |-> recs[k].row]
recordRows(rs) ==
    SelectSeq([i \in 1..Len(rs) |-> i], LAMBDA i : ~rs[i].IsHeader)
RECURSIVE covers(_, _)
covers(g, hs) ==
    IF hs = <<>> THEN g = <<>>
    ELSE \E k \in 1..Len(g) :
            /\ \A i \in 1..k : g[i].Type = Head(hs).Type
            /\ covers(SubSeq(g, k + 1, Len(g)), Tail(hs))
undeclared(rs) ==
    \E i \in 2..Len(rs) :
        /\ ~rs[i].IsHeader
        /\ \A j \in 1..(i - 1) : rs[j].IsHeader => rs[j].Type # rs[i].Type
IifNoRowLost ==
    (iifpc = "returned") =>
        /\ iifErr = NoErr =>
              /\ rowsOf(fileBlocks) = recordRows(iifInput)
              /\ \A k \in DOMAIN fileBlocks : \A n \in DOMAIN fileBlocks[k].Records :
                     covers(fileBlocks[k].Records[n], fileBlocks[k].Headers)
        /\ (iifInput # <<>> /\ ~iifInput[1].IsHeader) => iifErr = ErrEmptyHeader
        /\ (iifInput # <<>> /\ iifInput[1].IsHeader /\ undeclared(iifInput))
              => iifErr = ErrMismatchedRecords
====
